---- MODULE Spec2Model ----
(***************************************************************************)
(* OAuth2 token lifecycle of o365-mail-cli: the file backed TokenCache,    *)
(* the OAuthClient operations built on the authentication library, the     *)
(* device code flow with its background goroutine and completion channel,  *)
(* and the XOAUTH2 credential adapters of the IMAP and SMTP clients.       *)
(*                                                                         *)
(* One CLI process is alive at a time (NewOAuthClient ends the previous    *)
(* process and starts the next one on the same cache directory).  The      *)
(* identity provider, the clock and the disk are the environment.          *)
(*                                                                         *)
(* Spec is that process with all its operations; LoginSpec is the login    *)
(* command under fair scheduling; RaceSpec has two processes side by side  *)
(* and CrashSpec a process that can be killed, both with the file written  *)
(* in the two steps of os.WriteFile; XOAuth2Spec feeds the adapters.       *)
(* DamagedSpec adds a token file damaged from outside and CancelSpec a     *)
(* cancelled context; AbandonSpec is the login with a caller that stops    *)
(* waiting; LockSpec has goroutines calling one TokenCache under its       *)
(* mutex; CliSpec runs the auth commands on the account registry and       *)
(* ResolveSpec applies getActiveAccount to every registry and setting.     *)
(***************************************************************************)
EXTENDS Integers, Sequences, FiniteSets, TLC

(* ------------------------------ bounds -------------------------------- *)
\* Number of access tokens the identity provider mints in one behaviour.
MaxTok == 2

\* Longest email / token string fed to the XOAUTH2 adapters.
MaxStrLen == 2

(* ------------------------------ inputs -------------------------------- *)
\* Mailbox identities the identity provider can authenticate.
Accounts == {"alice", "bob"}

\* Emails a caller may pass: the identities above and the empty filter.
Emails == Accounts \cup {""}

Tokens == 1..MaxTok

(* ---------------------- token cache blob contents --------------------- *)
\* The authentication library's cache contract: a set of account entries,
\* one per PreferredUsername, each with its cached access token.
NoAccounts == {}

Users(c) == {r.user : r \in c}

TokenOf(c, a) == (CHOOSE r \in c : r.user = a).at

WriteAccount(c, a, t) == {r \in c : r.user # a} \cup {[user |-> a, at |-> t]}

RemoveAccount(c, a) == {r \in c : r.user # a}

\* cache.Marshal / cache.Unmarshal: the contract as bytes and back.  The
\* empty byte slice is <<>>; a marshalled contract is never empty, also
\* when it holds no account.
Marshal(c) == <<[valid |-> TRUE, accts |-> c]>>

Unmarshal(b) == b[1].accts

UnmarshalFails(b) == ~b[1].valid

NoFile == [exists |-> FALSE, bytes |-> <<>>]

nil == <<>>

(* --------------------------- state variables -------------------------- *)
VARIABLES
  file,       \* token.json on disk: [exists, bytes]
  data,       \* TokenCache.data of the live process
  mgr,        \* the library's in-memory cache contract of the live process
  nextTok,    \* next access token the identity provider mints
  expired,    \* access tokens whose validity window has elapsed
  pc,         \* position of the device code goroutine
  tasks,      \* device code goroutines started and not yet ended
  ch,         \* buffered values of resultChan (capacity 1)
  closed,     \* resultChan is closed
  sentLog,    \* every value ever sent on resultChan
  saveRet,    \* what TokenCache.Save returned in the goroutine
  result,     \* the goroutine's result of deviceCode.AuthenticationResult
  mainWait,   \* the caller is blocked in <-resultChan
  got,        \* values the caller received from resultChan
  loggedOut,  \* accounts logged out and not authenticated again since
  ret,        \* what the last operation returned
  xemail,     \* the email given to the XOAUTH2 adapters
  xtoken,     \* the access token given to the XOAUTH2 adapters
  imapStart,  \* what xoauth2Client.Start returned
  smtpStart,  \* what xoauth2SMTPAuth.Start returned
  xnext,      \* the last call of an adapter's Next and what it returned
  procs,      \* CLI processes running side by side on one cache directory
  registry,   \* accounts.yaml: the emails of the registered accounts
  currentAccount, \* current_account of the configuration file
  mu,         \* TokenCache.mu: the writer and the readers holding it
  th,         \* goroutines calling the TokenCache of one process
  lastLock    \* the call that acquired TokenCache.mu for writing last

authVars == <<file, data, mgr, nextTok, expired, pc, tasks, ch, closed,
              sentLog, saveRet, result, mainWait, got, loggedOut, ret>>

xoVars == <<xemail, xtoken, imapStart, smtpStart, xnext>>

cliVars == <<registry, currentAccount>>

lockVars == <<mu, th, lastLock>>

vars == <<authVars, xoVars, procs, cliVars, lockVars>>

store == [mgr |-> mgr, data |-> data, file |-> file, next |-> nextTok]

(* ------------------------------ TokenCache ---------------------------- *)
\* Outcomes of writing the token file.
WriteOutcomes == {"ok", "mkdir_failed", "write_failed"}

\* TokenCache.load: a missing file and a read error both leave data empty.
load(f, readOk) ==
  IF ~f.exists THEN [data |-> <<>>, err |-> nil]
  ELSE IF ~readOk THEN [data |-> <<>>, err |-> <<"read failed">>]
  ELSE [data |-> f.bytes, err |-> nil]

\* NewTokenCache without the call of load.
NewTokenCache_NoLoad(f, readOk) == <<>>

\* NewTokenCache discards the error of load.
NewTokenCache(f, readOk) == load(f, readOk).data

\* TokenCache.saveToFile: os.WriteFile truncates the file before writing.
saveToFile(d, f, w) ==
  IF w = "mkdir_failed"
    THEN [file |-> f, err |-> <<"failed to create cache directory: %w">>]
  ELSE IF w = "write_failed"
    THEN [file |-> [exists |-> TRUE, bytes |-> <<>>],
          err |-> <<"failed to write token file: %w">>]
  ELSE [file |-> [exists |-> TRUE, bytes |-> d], err |-> nil]

\* os.WriteFile in its two steps.  Opening creates the file or truncates
\* it to length zero; the write then puts the bytes at offset zero.
OpenTruncate(f) == [exists |-> TRUE, bytes |-> <<>>]

\* Length of a file's contents: a blob grows with its accounts.
Size(b) == IF Len(b) = 0 THEN 0 ELSE 1 + Cardinality(b[1].accts)

\* Bytes written at offset zero over what another writer has put there
\* since the truncation: a longer old content keeps its tail, and the
\* result is no blob.
Overlay(old, new) ==
  IF Size(old) > Size(new)
    THEN <<[valid |-> FALSE, accts |-> old[1].accts]>>
    ELSE new

WriteBytes(f, d) == [exists |-> TRUE, bytes |-> Overlay(f.bytes, d)]

\* What a write leaves that is cut short after some of the bytes.
Partial(d) == <<[valid |-> FALSE, accts |-> {}]>>

\* TokenCache.Save
Save(s, w) ==
  LET r == saveToFile(s.data, s.file, w)
  IN  [s |-> [s EXCEPT !.file = r.file], err |-> r.err]

\* TokenCache.Replace: empty data leaves the library's contract as it is.
Replace(s) ==
  IF Len(s.data) = 0 THEN [s |-> s, err |-> nil]
  ELSE IF UnmarshalFails(s.data) THEN [s |-> s, err |-> <<"unmarshal failed">>]
  ELSE [s |-> [s EXCEPT !.mgr = Unmarshal(s.data)], err |-> nil]

\* Export that writes the file and leaves t.data as it was.
Export_KeepData(s, w) ==
  LET d == Marshal(s.mgr)
      r == saveToFile(d, s.file, w)
  IN  [s |-> [s EXCEPT !.file = r.file], err |-> r.err]

\* TokenCache.Export: data is replaced before the file is written.
Export(s, w) ==
  LET d == Marshal(s.mgr)
      r == saveToFile(d, s.file, w)
  IN  [s |-> [s EXCEPT !.data = d, !.file = r.file], err |-> r.err]

\* Clear that removes the file and keeps t.data.
Clear_KeepData(s, rmOk) ==
  IF s.file.exists /\ ~rmOk
    THEN [s |-> s, err |-> <<"failed to remove token file: %w">>]
    ELSE [s |-> [s EXCEPT !.file = NoFile], err |-> nil]

\* TokenCache.Clear: data is dropped first; removing a missing file is fine.
Clear(s, rmOk) ==
  IF s.file.exists /\ ~rmOk
    THEN [s |-> [s EXCEPT !.data = <<>>],
          err |-> <<"failed to remove token file: %w">>]
    ELSE [s |-> [s EXCEPT !.data = <<>>, !.file = NoFile], err |-> nil]

\* TokenCache.HasToken
HasToken(d) == Len(d) > 0

(* ----------------- the authentication library (MSAL) ------------------ *)
\* Outcomes of a token request to the identity provider: granted, refused
\* because the refresh token is expired or revoked, or not answered.
NetOutcomes == {"ok", "invalid_grant", "network_error"}

AccountOrder == <<"alice", "bob">>

Reverse(q) == [i \in 1..Len(q) |-> q[Len(q) + 1 - i]]

\* The library enumerates its accounts in no particular order.
Enumerate(c, rev) ==
  LET InCache(a) == a \in Users(c)
      base == SelectSeq(AccountOrder, InCache)
  IN  IF rev THEN Reverse(base) ELSE base

\* app.Accounts: reloads the contract through Replace, then enumerates it.
LibAccounts(s, rev) ==
  LET r == Replace(s)
  IN  IF r.err # nil THEN [s |-> s, accounts |-> <<>>, err |-> r.err]
      ELSE [s |-> r.s, accounts |-> Enumerate(r.s.mgr, rev), err |-> nil]

\* The library stores a token response: Replace, write the account, Export.
\* The error of Export is returned to the caller along with the result.
AuthResultFromToken(s, a, w) ==
  LET r == Replace(s)
  IN  IF r.err # nil THEN [s |-> s, token |-> 0, err |-> r.err]
      ELSE LET t == r.s.next
               s2 == [r.s EXCEPT !.mgr = WriteAccount(@, a, t), !.next = t + 1]
               e == Export(s2, w)
           IN  [s |-> e.s, token |-> t, err |-> e.err]

\* app.AcquireTokenSilent: the cached access token while it is valid,
\* otherwise one refresh with the cached refresh token (refreshed tells
\* that the refresh was attempted).
AcquireTokenSilent(s, a, net, w) ==
  LET r == Replace(s)
      none == [s |-> s, token |-> 0, err |-> nil, refreshed |-> FALSE]
  IN  IF r.err # nil THEN [none EXCEPT !.err = r.err]
      ELSE IF a \notin Users(r.s.mgr)
        THEN [none EXCEPT !.s = r.s, !.err = <<"no cached account">>]
      ELSE IF TokenOf(r.s.mgr, a) \notin expired
        THEN [none EXCEPT !.s = r.s, !.token = TokenOf(r.s.mgr, a)]
      ELSE IF net # "ok"
        THEN [none EXCEPT !.s = r.s, !.err = <<net>>, !.refreshed = TRUE]
      ELSE LET x == AuthResultFromToken(r.s, a, w)
           IN  [s |-> x.s, token |-> x.token, err |-> x.err, refreshed |-> TRUE]

\* app.RemoveAccount: Replace, drop the account, Export.
LibRemoveAccount(s, a, w) ==
  LET r == Replace(s)
  IN  IF r.err # nil THEN [s |-> s, err |-> r.err]
      ELSE Export([r.s EXCEPT !.mgr = RemoveAccount(@, a)], w)

(* ------------------------------ OAuthClient --------------------------- *)
\* What an operation returned: the operation, its argument, the token or
\* the error, the listed accounts, the *AuthStatus, the *DeviceCodeResult,
\* and what it did on the way (ioerr: a read, write or remove of the token file failed during the
\* operation).
Ret(op, email, token, err) ==
  [op |-> op, email |-> email, token |-> token, err |-> err, list |-> <<>>,
   silent |-> 0, flows |-> 0, refreshed |-> FALSE, after |-> "",
   again |-> "no", ioerr |-> FALSE, status |-> <<>>, display |-> <<>>]

\* AuthStatus; ExpiresAt is the access token whose expiry it is, 0 the zero
\* time.
AuthStatus(loggedIn, email, tokenExpired, expiresAt) ==
  [LoggedIn |-> loggedIn, Email |-> email, TokenExpired |-> tokenExpired,
   ExpiresAt |-> expiresAt]

NotLoggedIn == AuthStatus(FALSE, "", FALSE, 0)

\* fmt.Errorf wraps its last argument when the format has the verb %w, so
\* that errors.Is finds it; with %v it keeps the argument's text only.
WrapFormats ==
  {"failed to create cache directory: %w", "failed to write token file: %w",
   "failed to remove token file: %w", "failed to get accounts: %w",
   "failed to remove account: %w", "failed to start device code flow: %w",
   "failed to save token: %w"}

ErrorsIs(err, target) ==
  \/ err = <<target>>
  \/ Len(err) > 1 /\ err[1] \in WrapFormats /\ err[Len(err)] = target

\* What tells two errors made by fmt.Errorf apart: the message format.
Kind(err) == err[1]

\* The error values of GetAccessToken.
ErrRefreshFailed(email, cause) ==
  <<"token refresh failed for %s: %v", email, cause[1]>>

ErrNoTokenFor(email) ==
  <<"no token found for %s, please run 'auth login' first", email>>

ErrNoValidToken == <<"no valid token found, please run 'auth login' first">>

\* Index of the first enumerated account whose PreferredUsername is email.
RECURSIVE FirstMatch(_, _, _)
FirstMatch(accounts, email, i) ==
  IF i > Len(accounts) THEN 0
  ELSE IF accounts[i] = email THEN i
  ELSE FirstMatch(accounts, email, i + 1)

\* GetAccessToken with one slip v: "empty_matches" takes the first account
\* for an empty email (the test of GetStatus), "retry" tries the silent
\* acquisition a second time, "fallthrough" goes on with the loop after a
\* failed silent acquisition.
GetAccessTokenSlip(s, email, rev, net, w, v) ==
  LET acc == LibAccounts(s, rev)
      m == FirstMatch(acc.accounts, email, 1)
      i == IF v = "empty_matches" /\ email = "" /\ Len(acc.accounts) > 0
             THEN 1 ELSE m
  IN  IF acc.err = nil /\ Len(acc.accounts) > 0
        THEN IF i > 0
               THEN LET r1 == AcquireTokenSilent(acc.s, acc.accounts[i], net, w)
                        again == v = "retry" /\ r1.err # nil
                        r == IF again
                               THEN AcquireTokenSilent(r1.s, acc.accounts[i], net, w)
                               ELSE r1
                        ok == Ret("GetAccessToken", email, r.token, nil)
                        bad == Ret("GetAccessToken", email, 0,
                                   IF v = "fallthrough" THEN ErrNoTokenFor(email)
                                   ELSE ErrRefreshFailed(email, r.err))
                    IN  [s |-> r.s,
                         ret |-> [(IF r.err = nil THEN ok ELSE bad)
                                    EXCEPT !.silent = IF again THEN 2 ELSE 1,
                                           !.refreshed = r.refreshed]]
               ELSE [s |-> acc.s,
                     ret |-> Ret("GetAccessToken", email, 0, ErrNoTokenFor(email))]
        ELSE [s |-> acc.s,
              ret |-> Ret("GetAccessToken", email, 0, ErrNoValidToken)]

GetAccessToken_EmptyMatches(s, email, rev, net, w) ==
  GetAccessTokenSlip(s, email, rev, net, w, "empty_matches")

GetAccessToken_Retry(s, email, rev, net, w) ==
  GetAccessTokenSlip(s, email, rev, net, w, "retry")

GetAccessToken_Fallthrough(s, email, rev, net, w) ==
  GetAccessTokenSlip(s, email, rev, net, w, "fallthrough")

\* OAuthClient.GetAccessToken
GetAccessToken(s, email, rev, net, w) ==
  LET acc == LibAccounts(s, rev)
      i == FirstMatch(acc.accounts, email, 1)
  IN  IF acc.err = nil /\ Len(acc.accounts) > 0
        THEN IF i > 0
               THEN LET r == AcquireTokenSilent(acc.s, acc.accounts[i], net, w)
                        ok == Ret("GetAccessToken", email, r.token, nil)
                        bad == Ret("GetAccessToken", email, 0,
                                   ErrRefreshFailed(email, r.err))
                    IN  [s |-> r.s,
                         ret |-> [(IF r.err = nil THEN ok ELSE bad)
                                    EXCEPT !.silent = 1,
                                           !.refreshed = r.refreshed]]
               ELSE [s |-> acc.s,
                     ret |-> Ret("GetAccessToken", email, 0, ErrNoTokenFor(email))]
        ELSE [s |-> acc.s,
              ret |-> Ret("GetAccessToken", email, 0, ErrNoValidToken)]

\* The first account GetStatus's loop takes for email: any account for the
\* empty email.
FirstStatusMatch(accounts, email) ==
  IF email = "" THEN (IF Len(accounts) > 0 THEN 1 ELSE 0)
  ELSE FirstMatch(accounts, email, 1)

\* GetStatus with one slip v after a failed silent acquisition:
\* "drop_expired" removes the account from the cache, "logged_out" reports
\* the account as not logged in.
GetStatusSlip(s, email, rev, net, w, v) ==
  LET acc == LibAccounts(s, rev)
      i == FirstStatusMatch(acc.accounts, email)
      is(st) == [Ret("GetStatus", email, 0, nil)
                   EXCEPT !.status = <<st>>, !.list = acc.accounts]
  IN  IF acc.err # nil
        THEN [s |-> acc.s, ret |-> Ret("GetStatus", email, 0, acc.err)]
      ELSE IF Len(acc.accounts) = 0
        THEN [s |-> acc.s, ret |-> is(NotLoggedIn)]
      ELSE IF i > 0
        THEN LET a == acc.accounts[i]
                 r == AcquireTokenSilent(acc.s, a, net, w)
                 st == IF r.err # nil
                         THEN (IF v = "logged_out" THEN NotLoggedIn
                               ELSE AuthStatus(TRUE, a, TRUE, 0))
                       ELSE AuthStatus(TRUE, a, FALSE, r.token)
                 s2 == IF r.err # nil /\ v = "drop_expired"
                         THEN LibRemoveAccount(r.s, a, "ok").s ELSE r.s
             IN  [s |-> s2,
                  ret |-> [is(st) EXCEPT !.silent = 1,
                                         !.refreshed = r.refreshed]]
      ELSE [s |-> acc.s, ret |-> is(NotLoggedIn)]

GetStatus_DropExpired(s, email, rev, net, w) ==
  GetStatusSlip(s, email, rev, net, w, "drop_expired")

GetStatus_FailureIsLoggedOut(s, email, rev, net, w) ==
  GetStatusSlip(s, email, rev, net, w, "logged_out")

\* OAuthClient.GetStatus
GetStatus(s, email, rev, net, w) ==
  LET acc == LibAccounts(s, rev)
      i == FirstStatusMatch(acc.accounts, email)
      is(st) == [Ret("GetStatus", email, 0, nil)
                   EXCEPT !.status = <<st>>, !.list = acc.accounts]
  IN  IF acc.err # nil
        THEN [s |-> acc.s, ret |-> Ret("GetStatus", email, 0, acc.err)]
      ELSE IF Len(acc.accounts) = 0
        THEN [s |-> acc.s, ret |-> is(NotLoggedIn)]
      ELSE IF i > 0
        THEN LET a == acc.accounts[i]
                 r == AcquireTokenSilent(acc.s, a, net, w)
                 st == IF r.err # nil THEN AuthStatus(TRUE, a, TRUE, 0)
                       ELSE AuthStatus(TRUE, a, FALSE, r.token)
             IN  [s |-> r.s,
                  ret |-> [is(st) EXCEPT !.silent = 1,
                                         !.refreshed = r.refreshed]]
      ELSE [s |-> acc.s, ret |-> is(NotLoggedIn)]

\* OAuthClient.ListAccounts
ListAccounts(s, rev) ==
  LET acc == LibAccounts(s, rev)
  IN  IF acc.err # nil
        THEN [s |-> acc.s,
              ret |-> Ret("ListAccounts", "", 0,
                          <<"failed to get accounts: %w", acc.err[1]>>)]
        ELSE [s |-> acc.s,
              ret |-> [Ret("ListAccounts", "", 0, nil)
                         EXCEPT !.list = acc.accounts]]

\* Logout that saves without removing the account.
Logout_NoRemove(s, email, rev, w1, w2) ==
  LET acc == LibAccounts(s, rev)
      i == FirstMatch(acc.accounts, email, 1)
      sv == Save(acc.s, w2)
  IN  IF acc.err # nil
        THEN [s |-> acc.s,
              ret |-> Ret("Logout", email, 0,
                          <<"failed to get accounts: %w", acc.err[1]>>)]
      ELSE IF i = 0
        THEN [s |-> acc.s,
              ret |-> Ret("Logout", email, 0, <<"account %s not found", email>>)]
      ELSE [s |-> sv.s, ret |-> Ret("Logout", email, 0, sv.err)]

\* Logout that saves the cache also when the account is not found.
Logout_SaveAlways(s, email, rev, w1, w2) ==
  LET acc == LibAccounts(s, rev)
      i == FirstMatch(acc.accounts, email, 1)
  IN  IF acc.err # nil
        THEN [s |-> acc.s,
              ret |-> Ret("Logout", email, 0,
                          <<"failed to get accounts: %w", acc.err[1]>>)]
      ELSE IF i = 0
        THEN [s |-> Save(acc.s, "ok").s,
              ret |-> Ret("Logout", email, 0, <<"account %s not found", email>>)]
      ELSE LET rm == LibRemoveAccount(acc.s, acc.accounts[i], w1)
               sv == Save(rm.s, w2)
           IN  IF rm.err # nil
                 THEN [s |-> rm.s,
                       ret |-> Ret("Logout", email, 0,
                                   <<"failed to remove account: %w", rm.err[1]>>)]
                 ELSE [s |-> sv.s, ret |-> Ret("Logout", email, 0, sv.err)]

\* OAuthClient.Logout
Logout(s, email, rev, w1, w2) ==
  LET acc == LibAccounts(s, rev)
      i == FirstMatch(acc.accounts, email, 1)
  IN  IF acc.err # nil
        THEN [s |-> acc.s,
              ret |-> Ret("Logout", email, 0,
                          <<"failed to get accounts: %w", acc.err[1]>>)]
      ELSE IF i = 0
        THEN [s |-> acc.s,
              ret |-> Ret("Logout", email, 0, <<"account %s not found", email>>)]
      ELSE LET rm == LibRemoveAccount(acc.s, acc.accounts[i], w1)
               sv == Save(rm.s, w2)
           IN  IF rm.err # nil
                 THEN [s |-> rm.s,
                       ret |-> Ret("Logout", email, 0,
                                   <<"failed to remove account: %w", rm.err[1]>>)]
                 ELSE [s |-> sv.s, ret |-> Ret("Logout", email, 0, sv.err)]

\* The removal loop of LogoutAll over the enumerated accounts.
RECURSIVE RemoveEach(_, _, _, _)
RemoveEach(s, accounts, i, ws) ==
  IF i > Len(accounts) THEN [s |-> s, err |-> nil]
  ELSE LET rm == LibRemoveAccount(s, accounts[i], ws[i])
       IN  IF rm.err # nil
             THEN [s |-> rm.s, err |-> <<"failed to remove account: %w", rm.err[1]>>]
             ELSE RemoveEach(rm.s, accounts, i + 1, ws)

\* OAuthClient.LogoutAll
LogoutAll(s, rev, ws, rmOk) ==
  LET acc == LibAccounts(s, rev)
      each == RemoveEach(acc.s, acc.accounts, 1, ws)
      cl == Clear(each.s, rmOk)
  IN  IF acc.err # nil
        THEN [s |-> acc.s,
              ret |-> Ret("LogoutAll", "", 0,
                          <<"failed to get accounts: %w", acc.err[1]>>)]
      ELSE IF each.err # nil
        THEN [s |-> each.s, ret |-> Ret("LogoutAll", "", 0, each.err)]
      ELSE [s |-> cl.s,
            ret |-> [Ret("LogoutAll", "", 0, cl.err) EXCEPT !.list = acc.accounts]]

(* --------------------------- device code flow ------------------------- *)
\* What the identity provider answers while the goroutine waits.
AuthOutcomes == {"approved", "authorization_declined", "expired_token"}

AuthResult(token, email, err) == [token |-> token, email |-> email, err |-> err]

\* The zero value a receive on a closed, drained channel yields.
ZeroAuthResult == AuthResult(0, "", nil)

flow == [pc |-> pc, tasks |-> tasks, ch |-> ch, closed |-> closed, sentLog |-> sentLog,
         saveRet |-> saveRet, result |-> result]

IdleFlow == [pc |-> "idle", tasks |-> 0, ch |-> <<>>, closed |-> FALSE, sentLog |-> <<>>,
             saveRet |-> "none", result |-> <<>>]

\* Capacity of resultChan.
ChanCap == 1

\* A send on an unbuffered channel: it needs the receiver waiting.
CanSend_Unbuffered(fl, receiving) == receiving /\ Len(fl.ch) = 0

\* A send on resultChan completes when the buffer has room.
CanSend(fl, receiving) == Len(fl.ch) < ChanCap

\* resultChan <- v
Send(fl, v) == [fl EXCEPT !.ch = Append(@, v), !.sentLog = Append(@, v)]

\* defer close(resultChan), and the goroutine ends
CloseAndEnd(fl) ==
  [fl EXCEPT !.closed = TRUE, !.pc = "done", !.tasks = @ - 1]

\* The verification URLs a device authorization response can carry.
VerificationURLs == {"", "https://login.microsoft.com/device"}

\* The identity provider's device authorization response.
DeviceAuthorization(url) ==
  [UserCode |-> "user_code", VerificationURL |-> url,
   ExpiresOn |-> "expires_on", Message |-> "message"]

\* DeviceCodeResult, with the fallback for a missing verification URL.
DeviceCodeResult(dc) ==
  [UserCode |-> dc.UserCode,
   VerificationURL |-> IF dc.VerificationURL = ""
                         THEN "https://microsoft.com/devicelogin"
                         ELSE dc.VerificationURL,
   ExpiresIn |-> <<"seconds until", dc.ExpiresOn>>,
   Message |-> dc.Message]

\* StartDeviceCodeFlow that waits for the authentication itself, here until
\* the device code has expired, before it returns.
StartDeviceCodeFlow_Blocking(fl, net, url) ==
  IF net # "ok"
    THEN [fl |-> fl, started |-> FALSE,
          ret |-> Ret("StartDeviceCodeFlow", "", 0,
                      <<"failed to start device code flow: %w", net>>)]
    ELSE [fl |-> CloseAndEnd(Send([IdleFlow EXCEPT !.pc = "polling", !.tasks = fl.tasks + 1],
                                  AuthResult(0, "", <<"expired_token">>))),
          started |-> TRUE,
          ret |-> [Ret("StartDeviceCodeFlow", "", 0, nil)
                     EXCEPT !.flows = 1,
                            !.display = <<DeviceCodeResult(DeviceAuthorization(url))>>]]

\* StartDeviceCodeFlow that starts the goroutine also when the device
\* authorization request failed.
StartDeviceCodeFlow_GoOnFailure(fl, net, url) ==
  IF net # "ok"
    THEN [fl |-> [IdleFlow EXCEPT !.pc = "polling", !.tasks = fl.tasks + 1], started |-> FALSE,
          ret |-> Ret("StartDeviceCodeFlow", "", 0,
                      <<"failed to start device code flow: %w", net>>)]
    ELSE [fl |-> [IdleFlow EXCEPT !.pc = "polling", !.tasks = fl.tasks + 1], started |-> TRUE,
          ret |-> [Ret("StartDeviceCodeFlow", "", 0, nil)
                     EXCEPT !.flows = 1,
                            !.display = <<DeviceCodeResult(DeviceAuthorization(url))>>]]

\* StartDeviceCodeFlow up to its return: the device authorization request,
\* the channel, the goroutine and the display info.
StartDeviceCodeFlow(fl, net, url) ==
  IF net # "ok"
    THEN [fl |-> fl, started |-> FALSE,
          ret |-> Ret("StartDeviceCodeFlow", "", 0,
                      <<"failed to start device code flow: %w", net>>)]
    ELSE [fl |-> [IdleFlow EXCEPT !.pc = "polling", !.tasks = fl.tasks + 1], started |-> TRUE,
          ret |-> [Ret("StartDeviceCodeFlow", "", 0, nil)
                     EXCEPT !.flows = 1,
                            !.display = <<DeviceCodeResult(DeviceAuthorization(url))>>]]

\* The goroutine without the return after the failure has been sent.
AwaitAuthenticationResult_NoReturn(fl, s, outcome, a, w) ==
  LET x == AuthResultFromToken(s, a, w)
      on(f, v) == [f EXCEPT !.pc = "authed", !.result = <<v>>]
  IN  IF outcome # "approved"
        THEN [fl |-> on(Send(fl, AuthResult(0, "", <<outcome>>)), ZeroAuthResult),
              s |-> s]
      ELSE IF x.err # nil
        THEN [fl |-> on(Send(fl, AuthResult(0, "", x.err)),
                        AuthResult(x.token, a, nil)),
              s |-> x.s]
      ELSE [fl |-> on(fl, AuthResult(x.token, a, nil)), s |-> x.s]

\* The goroutine ending on the expiry of the device code without a send and
\* without closing the channel.
AwaitAuthenticationResult_SilentExpiry(fl, s, outcome, a, w) ==
  LET x == AuthResultFromToken(s, a, w)
  IN  IF outcome = "expired_token"
        THEN [fl |-> [fl EXCEPT !.pc = "done", !.tasks = @ - 1], s |-> s]
      ELSE IF outcome # "approved"
        THEN [fl |-> CloseAndEnd(Send(fl, AuthResult(0, "", <<outcome>>))),
              s |-> s]
      ELSE IF x.err # nil
        THEN [fl |-> CloseAndEnd(Send(fl, AuthResult(0, "", x.err))), s |-> x.s]
      ELSE [fl |-> [fl EXCEPT !.pc = "authed",
                              !.result = <<AuthResult(x.token, a, nil)>>],
            s |-> x.s]

\* The goroutine until deviceCode.AuthenticationResult returns: a failure
\* is sent at once; a success has gone through the library's cache write.
AwaitAuthenticationResult(fl, s, outcome, a, w) ==
  LET x == AuthResultFromToken(s, a, w)
  IN  IF outcome # "approved"
        THEN [fl |-> CloseAndEnd(Send(fl, AuthResult(0, "", <<outcome>>))),
              s |-> s]
      ELSE IF x.err # nil
        THEN [fl |-> CloseAndEnd(Send(fl, AuthResult(0, "", x.err))), s |-> x.s]
      ELSE [fl |-> [fl EXCEPT !.pc = "authed",
                              !.result = <<AuthResult(x.token, a, nil)>>],
            s |-> x.s]

\* The goroutine sending the result whatever Save returned.
SaveAndSend_IgnoreSaveError(fl, s, w) ==
  LET sv == Save(s, w)
  IN  [fl |-> CloseAndEnd(Send([fl EXCEPT !.saveRet = IF sv.err = nil THEN "ok"
                                                     ELSE "err"],
                               fl.result[1])),
       s |-> sv.s]

\* The rest of the goroutine: Save, then the one send, then close.
SaveAndSend(fl, s, w) ==
  LET sv == Save(s, w)
      failed == AuthResult(0, "", <<"failed to save token: %w", sv.err[1]>>)
  IN  IF sv.err # nil
        THEN [fl |-> CloseAndEnd(Send([fl EXCEPT !.saveRet = "err"], failed)),
              s |-> sv.s]
        ELSE [fl |-> CloseAndEnd(Send([fl EXCEPT !.saveRet = "ok"],
                                      fl.result[1])),
              s |-> sv.s]

\* result := <-resultChan
Receive(fl) ==
  IF Len(fl.ch) > 0 THEN [fl |-> [fl EXCEPT !.ch = Tail(@)], v |-> Head(fl.ch)]
  ELSE [fl |-> fl, v |-> ZeroAuthResult]

(* -------------------------- XOAUTH2 adapters -------------------------- *)
\* Strings are sequences of bytes.  The bytes the adapters are fed with:
\* a letter, and the two bytes of the verb %s.
InputBytes == {97, 37, 115}

RECURSIVE StringsUpTo(_)
StringsUpTo(n) ==
  IF n = 0 THEN {<<>>}
  ELSE StringsUpTo(n - 1) \cup
       {Append(q, b) : q \in {x \in StringsUpTo(n - 1) : Len(x) = n - 1},
                       b \in InputBytes}

Strings == StringsUpTo(MaxStrLen)

\* "user=%s\x01auth=Bearer %s\x01\x01"
XOAuth2Format ==
  <<117, 115, 101, 114, 61, 37, 115, 1,
    97, 117, 116, 104, 61, 66, 101, 97, 114, 101, 114, 32, 37, 115, 1, 1>>

\* "user=%s auth=Bearer %s\x01\x01": a blank for the first delimiter.
XOAuth2Format_Blank ==
  <<117, 115, 101, 114, 61, 37, 115, 32,
    97, 117, 116, 104, 61, 66, 101, 97, 114, 101, 114, 32, 37, 115, 1, 1>>

\* fmt.Sprintf for formats whose only verb is %s: the format is copied byte
\* by byte and each %s is replaced by the next argument, which is not
\* scanned for verbs.
RECURSIVE Sprintf(_, _, _, _)
Sprintf(format, args, i, k) ==
  IF i > Len(format) THEN <<>>
  ELSE IF format[i] = 37 /\ i < Len(format) /\ format[i + 1] = 115
    THEN args[k] \o Sprintf(format, args, i + 2, k + 1)
  ELSE <<format[i]>> \o Sprintf(format, args, i + 1, k)

NotCalled == [called |-> FALSE, mech |-> "", ir |-> <<>>, err |-> nil]

\* xoauth2Client.Start (IMAP)
xoauth2Client_Start(email, token) ==
  [called |-> TRUE, mech |-> "XOAUTH2",
   ir |-> Sprintf(XOAuth2Format, <<email, token>>, 1, 1), err |-> nil]

xoauth2SMTPAuth_Start_Blank(email, token) ==
  [called |-> TRUE, mech |-> "XOAUTH2",
   ir |-> Sprintf(XOAuth2Format_Blank, <<email, token>>, 1, 1), err |-> nil]

\* xoauth2SMTPAuth.Start (SMTP)
xoauth2SMTPAuth_Start(email, token) ==
  [called |-> TRUE, mech |-> "XOAUTH2",
   ir |-> Sprintf(XOAuth2Format, <<email, token>>, 1, 1), err |-> nil]

\* Server challenges handed to Next: every string of at most one byte.
Challenges == StringsUpTo(1)

NoNext == [who |-> "none", challenge |-> <<>>, more |-> FALSE,
           resp |-> nil, err |-> nil]

\* xoauth2Client.Next (IMAP)
xoauth2Client_Next(email, token, challenge) == [resp |-> nil, err |-> nil]

\* Next answering a continuation with the credentials once more.
xoauth2SMTPAuth_Next_Resend(email, token, fromServer, more) ==
  IF more
    THEN [resp |-> Sprintf(XOAuth2Format, <<email, token>>, 1, 1), err |-> nil]
    ELSE [resp |-> nil, err |-> nil]

\* xoauth2SMTPAuth.Next (SMTP)
xoauth2SMTPAuth_Next(email, token, fromServer, more) ==
  IF more THEN [resp |-> nil, err |-> nil]
  ELSE [resp |-> nil, err |-> nil]

\* The processes of the runs with several invocations, and a process that
\* has not loaded the cache yet.
Procs == {1, 2}

NotStarted == [pc |-> "start", data |-> <<>>, mgr |-> NoAccounts,
               prev |-> NoFile, at |-> ""]

(* -------------------------------- actions ----------------------------- *)
SetStore(s) ==
  /\ mgr' = s.mgr
  /\ data' = s.data
  /\ file' = s.file
  /\ nextTok' = s.next

SetFlow(fl) ==
  /\ pc' = fl.pc
  /\ tasks' = fl.tasks
  /\ ch' = fl.ch
  /\ closed' = fl.closed
  /\ sentLog' = fl.sentLog
  /\ saveRet' = fl.saveRet
  /\ result' = fl.result

SetRet(r) == ret' = r

\* How a GetAccessToken call follows the call before it: "no" when that was
\* another operation or another email, else what that call did.
Again(email) ==
  IF ret.op # "GetAccessToken" \/ ret.email # email THEN "no"
  ELSE IF ret.err # nil THEN "failed"
  ELSE IF ret.refreshed THEN "refreshed"
  ELSE "cached"

\* runLogin is the only caller of StartDeviceCodeFlow and makes no other
\* call on its client: the other operations run in a process that has not
\* started a login.
NoLogin == pc = "idle"

\* The identity provider mints no more than MaxTok access tokens.
InBudget(s) == s.next <= MaxTok + 1

\* The enumeration orders that can differ: one when there are fewer than two
\* accounts to enumerate.
Orders(s) ==
  IF Cardinality(Users(Replace(s).s.mgr)) > 1 THEN BOOLEAN ELSE {FALSE}

\* The outcomes of the refresh request and of the cache write that a
\* silent acquisition for email can meet: one when it does not get there.
Refreshes(s, email) ==
  LET c == Replace(s).s.mgr
  IN  IF email \in Users(c) /\ TokenOf(c, email) \in expired
        THEN NetOutcomes ELSE {"ok"}

Writes(s, email, net) ==
  IF Refreshes(s, email) = NetOutcomes /\ net = "ok"
    THEN WriteOutcomes ELSE {"ok"}

\* The outcomes of the cache writes that removing the account email can
\* meet: one when the account is not there to remove.
RemovalWrites(s, email) ==
  IF email \in Users(Replace(s).s.mgr) THEN WriteOutcomes ELSE {"ok"}

\* The outcomes of the cache writes of LogoutAll's removals: every removal
\* succeeds, or the k-th one fails and ends the loop.
WriteFailures == WriteOutcomes \ {"ok"}

RemovalRuns(s) ==
  LET n == Cardinality(Users(Replace(s).s.mgr))
      all == [i \in 1..Cardinality(Accounts) |-> "ok"]
  IN  {all} \cup {[all EXCEPT ![k] = w] : k \in 1..n, w \in WriteFailures}

\* The goroutines of the runs with concurrent TokenCache calls, a goroutine
\* outside the TokenCache, the free mutex and the mark of no writer yet.
Threads == {1, 2}

Outside == [op |-> "none", pc |-> "out", val |-> <<>>]

Unlocked == [writer |-> 0, readers |-> {}]

NoWriter == [op |-> "none", val |-> <<>>]

AuthInit ==
  /\ file = NoFile
  /\ data = <<>>
  /\ mgr = NoAccounts
  /\ nextTok = 1
  /\ expired = {}
  /\ pc = "idle"
  /\ tasks = 0
  /\ ch = <<>>
  /\ closed = FALSE
  /\ sentLog = <<>>
  /\ saveRet = "none"
  /\ result = <<>>
  /\ mainWait = FALSE
  /\ got = <<>>
  /\ loggedOut = {}
  /\ ret = Ret("NewOAuthClient", "", 0, nil)
  /\ mu = Unlocked
  /\ th = [t \in Threads |-> Outside]
  /\ lastLock = NoWriter

Init ==
  /\ AuthInit
  /\ xemail = <<>>
  /\ xtoken = <<>>
  /\ imapStart = NotCalled
  /\ smtpStart = NotCalled
  /\ xnext = NoNext
  /\ procs = [p \in Procs |-> NotStarted]
  /\ registry = <<>>
  /\ currentAccount = ""

\* A new CLI process: the previous one is gone (exited or killed), the new
\* TokenCache loads the file and the library starts with an empty contract.
DoNewOAuthClient ==
  \E readOk \in BOOLEAN :
    /\ data' = NewTokenCache(file, readOk)
    /\ mgr' = NoAccounts
    /\ SetFlow(IdleFlow)
    /\ mainWait' = FALSE
    /\ got' = <<>>
    /\ SetRet([Ret("NewOAuthClient", "", 0, nil)
                 EXCEPT !.after = IF /\ ret.op = "deliver"
                                     /\ ret.err = nil
                                     /\ load(file, readOk).err = nil
                                    THEN ret.email ELSE "",
                        !.ioerr = load(file, readOk).err # nil])
    /\ UNCHANGED <<file, nextTok, expired, loggedOut>>
    /\ UNCHANGED <<xoVars, procs, cliVars, lockVars>>

DoGetAccessToken ==
  \E email \in Emails, rev \in Orders(store) :
  \E net \in Refreshes(store, email) :
  \E w \in Writes(store, email, net) :
    LET r == GetAccessToken(store, email, rev, net, w)
    IN  /\ ~mainWait
        /\ NoLogin
        /\ InBudget(r.s)
        /\ SetStore(r.s)
        /\ SetRet([r.ret EXCEPT !.after = IF ret.op = "NewOAuthClient"
                                           THEN ret.after ELSE "",
                                 !.again = Again(email),
                                 !.ioerr = w # "ok"])
        /\ UNCHANGED <<expired, pc, tasks, ch, closed, sentLog, saveRet, result,
                       mainWait, got, loggedOut>>
        /\ UNCHANGED <<xoVars, procs, cliVars, lockVars>>

\* The account a status request for email comes to, "" when there is none.
StatusAccount(s, email, rev) ==
  LET accounts == LibAccounts(s, rev).accounts
      i == FirstStatusMatch(accounts, email)
  IN  IF i > 0 THEN accounts[i] ELSE ""

DoGetStatus ==
  \E email \in Emails, rev \in Orders(store) :
  \E net \in Refreshes(store, StatusAccount(store, email, rev)) :
  \E w \in Writes(store, StatusAccount(store, email, rev), net) :
    LET r == GetStatus(store, email, rev, net, w)
    IN  /\ ~mainWait
        /\ NoLogin
        /\ InBudget(r.s)
        /\ SetStore(r.s)
        /\ SetRet([r.ret EXCEPT !.ioerr = w # "ok"])
        /\ UNCHANGED <<expired, pc, tasks, ch, closed, sentLog, saveRet, result,
                       mainWait, got, loggedOut>>
        /\ UNCHANGED <<xoVars, procs, cliVars, lockVars>>

DoLogout ==
  \E email \in Accounts, rev \in Orders(store) :
  \E w1 \in RemovalWrites(store, email) :
  \E w2 \in IF w1 = "ok" THEN RemovalWrites(store, email) ELSE {"ok"} :
    LET r == Logout(store, email, rev, w1, w2)
    IN  /\ ~mainWait
        /\ NoLogin
        /\ SetStore(r.s)
        /\ SetRet([r.ret EXCEPT !.ioerr = w1 # "ok" \/ w2 # "ok"])
        /\ loggedOut' = IF r.ret.err = nil THEN loggedOut \cup {email}
                        ELSE loggedOut
        /\ UNCHANGED <<expired, pc, tasks, ch, closed, sentLog, saveRet, result,
                       mainWait, got>>
        /\ UNCHANGED <<xoVars, procs, cliVars, lockVars>>

DoLogoutAll ==
  \E rev \in Orders(store), ws \in RemovalRuns(store) :
  \E rmOk \in IF file.exists \/ Users(Replace(store).s.mgr) # {}
                THEN BOOLEAN ELSE {TRUE} :
    LET r == LogoutAll(store, rev, ws, rmOk)
        removed == \A i \in DOMAIN ws : ws[i] = "ok"
    IN  /\ ~mainWait
        /\ NoLogin
        /\ SetStore(r.s)
        /\ SetRet([r.ret EXCEPT !.ioerr = ~removed \/ (r.s.file.exists /\ ~rmOk)])
        /\ UNCHANGED <<expired, pc, tasks, ch, closed, sentLog, saveRet, result,
                       mainWait, got, loggedOut>>
        /\ UNCHANGED <<xoVars, procs, cliVars, lockVars>>

\* The caller starts a login and then blocks on the channel (runLogin).
\* A caller that starts a flow whatever it has started before.
CallerIdle_Always == TRUE

\* runLogin is the only caller of StartDeviceCodeFlow: it calls it once and
\* then is blocked in the receive until the goroutine has delivered.
CallerIdle == ~mainWait /\ pc \in {"idle", "done"}

DoStartDeviceCodeFlow ==
  \E net \in NetOutcomes :
  \E url \in IF net = "ok" THEN VerificationURLs ELSE {""} :
    LET r == StartDeviceCodeFlow(flow, net, url)
    IN  /\ CallerIdle
        /\ SetFlow(r.fl)
        /\ mainWait' = r.started
        /\ got' = IF r.started THEN <<>> ELSE got
        /\ SetRet(r.ret)
        /\ UNCHANGED <<file, data, mgr, nextTok, expired, loggedOut>>
        /\ UNCHANGED <<xoVars, procs, cliVars, lockVars>>

DoAwaitAuthenticationResult ==
  \E outcome \in AuthOutcomes :
  \E a \in IF outcome = "approved" THEN Accounts ELSE {AccountOrder[1]} :
  \E w \in IF outcome = "approved" THEN WriteOutcomes ELSE {"ok"} :
    LET r == AwaitAuthenticationResult(flow, store, outcome, a, w)
        v == r.fl.sentLog
    IN  /\ pc = "polling"
        /\ outcome = "approved" => nextTok <= MaxTok
        /\ Len(v) > Len(sentLog) => CanSend(flow, mainWait)
        /\ SetFlow(r.fl)
        /\ SetStore(IF outcome = "approved" THEN r.s ELSE store)
        /\ loggedOut' = IF outcome = "approved" THEN loggedOut \ {a}
                        ELSE loggedOut
        /\ SetRet([IF Len(v) > 0
                     THEN Ret("deliver", v[1].email, v[1].token, v[1].err)
                     ELSE Ret("authenticated", a, 0, nil)
                     EXCEPT !.ioerr = w # "ok"])
        /\ UNCHANGED <<expired, mainWait, got>>
        /\ UNCHANGED <<xoVars, procs, cliVars, lockVars>>

DoSaveAndSend ==
  \E w \in WriteOutcomes :
    LET r == SaveAndSend(flow, store, w)
        v == r.fl.sentLog[Len(r.fl.sentLog)]
    IN  /\ pc = "authed"
        /\ CanSend(flow, mainWait)
        /\ SetFlow(r.fl)
        /\ SetStore(r.s)
        /\ SetRet([Ret("deliver", v.email, v.token, v.err)
                     EXCEPT !.ioerr = w # "ok"])
        /\ UNCHANGED <<expired, mainWait, got, loggedOut>>
        /\ UNCHANGED <<xoVars, procs, cliVars, lockVars>>

DoReceive ==
  LET r == Receive(flow)
  IN  /\ mainWait
      /\ Len(ch) > 0 \/ closed
      /\ ch' = r.fl.ch
      /\ got' = <<r.v>>
      /\ mainWait' = FALSE
      /\ SetRet(Ret("receive", r.v.email, r.v.token, r.v.err))
      /\ UNCHANGED <<file, data, mgr, nextTok, expired, pc, tasks, closed,
                     sentLog, saveRet, result, loggedOut>>
      /\ UNCHANGED <<xoVars, procs, cliVars, lockVars>>

\* The validity window of an issued access token elapses.
Cached(c) == {r.at : r \in c}

Contents(b) == IF Len(b) = 0 THEN NoAccounts ELSE Unmarshal(b)

Expire ==
  \E t \in Cached(mgr) \cup Cached(Contents(data)) \cup Cached(Contents(file.bytes)) :
    /\ t \notin expired
    /\ expired' = expired \cup {t}
    /\ SetRet(Ret("Expire", "", t, nil))
    /\ UNCHANGED <<file, data, mgr, nextTok, pc, tasks, ch, closed,
                   sentLog,
                   saveRet, result, mainWait, got, loggedOut>>
    /\ UNCHANGED <<xoVars, procs, cliVars, lockVars>>

Next ==
  \/ DoNewOAuthClient
  \/ DoGetAccessToken
  \/ DoGetStatus
  \/ DoLogout
  \/ DoLogoutAll
  \/ DoStartDeviceCodeFlow
  \/ DoAwaitAuthenticationResult
  \/ DoSaveAndSend
  \/ DoReceive
  \/ Expire

Spec == Init /\ [][Next]_vars

TypeOK ==
  /\ file.exists \in BOOLEAN
  /\ pc \in {"idle", "polling", "authed", "done"}
  /\ nextTok \in 1..(MaxTok + 1)
  /\ expired \subseteq Tokens
  /\ Len(ch) <= 1

(* ------------------ the process on a damaged token file -------------- *)
DoListAccounts ==
  \E rev \in Orders(store) :
    LET r == ListAccounts(store, rev)
    IN  /\ ~mainWait
        /\ NoLogin
        /\ SetStore(r.s)
        /\ SetRet(r.ret)
        /\ UNCHANGED <<expired, pc, tasks, ch, closed, sentLog, saveRet, result,
                       mainWait, got, loggedOut>>
        /\ UNCHANGED <<xoVars, procs, cliVars, lockVars>>

\* A writer that was killed, or two writers at once, have left the token
\* file with bytes that are no blob.
Damage ==
  /\ file.exists
  /\ IF Len(file.bytes) = 0 THEN TRUE ELSE ~UnmarshalFails(file.bytes)
  /\ file' = [exists |-> TRUE, bytes |-> Partial(file.bytes)]
  /\ SetRet(Ret("Damage", "", 0, nil))
  /\ UNCHANGED <<data, mgr, nextTok, expired, pc, tasks, ch, closed,
                sentLog,
                 saveRet, result, mainWait, got, loggedOut>>
  /\ UNCHANGED <<xoVars, procs, cliVars, lockVars>>

DamagedNext ==
  \/ DoNewOAuthClient
  \/ DoGetAccessToken
  \/ DoGetStatus
  \/ DoListAccounts
  \/ DoLogout
  \/ DoLogoutAll
  \/ DoStartDeviceCodeFlow
  \/ DoAwaitAuthenticationResult
  \/ DoSaveAndSend
  \/ DoReceive
  \/ Expire
  \/ Damage

DamagedSpec == Init /\ [][DamagedNext]_vars

(* ------------- the process with a caller that cancels ----------------- *)
\* GetAccessToken whose context is cancelled, or whose deadline passes,
\* while the library's refresh request is under way: the request returns
\* the context's error.
DoGetAccessTokenCanceled ==
  \E email \in Accounts, rev \in Orders(store) :
    LET r == GetAccessToken(store, email, rev, "context_canceled", "ok")
    IN  /\ ~mainWait
        /\ NoLogin
        /\ Refreshes(store, email) = NetOutcomes
        /\ SetStore(r.s)
        /\ SetRet([r.ret EXCEPT !.again = Again(email)])
        /\ UNCHANGED <<expired, pc, tasks, ch, closed, sentLog, saveRet, result,
                       mainWait, got, loggedOut>>
        /\ UNCHANGED <<xoVars, procs, cliVars, lockVars>>

CancelNext ==
  \/ DoNewOAuthClient
  \/ DoGetAccessToken
  \/ DoGetAccessTokenCanceled
  \/ DoGetStatus
  \/ DoLogout
  \/ DoLogoutAll
  \/ DoStartDeviceCodeFlow
  \/ DoAwaitAuthenticationResult
  \/ DoSaveAndSend
  \/ DoReceive
  \/ Expire

CancelSpec == Init /\ [][CancelNext]_vars

(* ------------------- the login command, scheduled fairly -------------- *)
\* runLogin in one process: the flow is started, the goroutine runs to its
\* end and the caller receives.  The library's AuthenticationResult returns
\* at the latest when the device code expires, the Go scheduler runs a
\* runnable goroutine, and a receive on a channel that holds a value or is
\* closed completes.
LoginNext ==
  \/ DoStartDeviceCodeFlow
  \/ DoAwaitAuthenticationResult
  \/ DoSaveAndSend
  \/ DoReceive
  \/ Expire

LoginSpec ==
  /\ Init
  /\ [][LoginNext]_vars
  /\ WF_vars(DoAwaitAuthenticationResult)
  /\ WF_vars(DoSaveAndSend)
  /\ WF_vars(DoReceive)

\* A caller that gives up waiting, as after a timeout of its own: it never
\* receives from resultChan.
Abandon ==
  /\ mainWait
  /\ mainWait' = FALSE
  /\ SetRet(Ret("abandon", "", 0, nil))
  /\ UNCHANGED <<file, data, mgr, nextTok, expired, pc, tasks, ch, closed,
                 sentLog, saveRet, result, got, loggedOut>>
  /\ UNCHANGED <<xoVars, procs, cliVars, lockVars>>

\* The login with such a caller: only the goroutine is scheduled fairly,
\* the caller may never receive.
AbandonNext ==
  \/ DoStartDeviceCodeFlow
  \/ DoAwaitAuthenticationResult
  \/ DoSaveAndSend
  \/ DoReceive
  \/ Abandon
  \/ Expire

AbandonSpec ==
  /\ Init
  /\ [][AbandonNext]_vars
  /\ WF_vars(DoAwaitAuthenticationResult)
  /\ WF_vars(DoSaveAndSend)

(* ------------- processes side by side on one cache directory ---------- *)
\* A login in a process of its own, with os.WriteFile in its two steps:
\* NewTokenCache loads the file, the library stores the token response
\* (Replace, write the account, Export sets t.data), Export's saveToFile
\* opens and writes, and the goroutine's Save opens and writes once more.
raceFrame == <<data, mgr, expired, pc, tasks, ch, closed, sentLog, saveRet,
               result, mainWait, got, loggedOut, ret, xoVars, cliVars,
               lockVars>>

SetProc(p, q) == procs' = [procs EXCEPT ![p] = q]

ProcStore(p) == [mgr |-> procs[p].mgr, data |-> procs[p].data, file |-> file,
                 next |-> nextTok]

PLoad(p) ==
  /\ procs[p].pc = "start"
  /\ SetProc(p, [procs[p] EXCEPT !.pc = "loaded",
                                 !.data = NewTokenCache(file, TRUE)])
  /\ UNCHANGED <<file, nextTok, raceFrame>>

\* The identity provider approves the login of one of the accounts in as.
PAuthenticate(p, as) ==
  \E a \in as :
    LET r == Replace(ProcStore(p))
        c == WriteAccount(r.s.mgr, a, nextTok)
    IN  /\ procs[p].pc = "loaded"
        /\ nextTok <= MaxTok
        /\ IF r.err # nil
             THEN /\ SetProc(p, [procs[p] EXCEPT !.pc = "failed"])
                  /\ UNCHANGED nextTok
             ELSE /\ SetProc(p, [procs[p] EXCEPT !.pc = "export", !.mgr = c,
                                                 !.data = Marshal(c),
                                                 !.prev = file])
                  /\ nextTok' = nextTok + 1
        /\ UNCHANGED <<file, raceFrame>>

POpen(p) ==
  /\ procs[p].pc \in {"export", "save"}
  /\ file' = OpenTruncate(file)
  /\ SetProc(p, [procs[p] EXCEPT !.pc = IF @ = "export" THEN "export_open"
                                        ELSE "save_open"])
  /\ UNCHANGED <<nextTok, raceFrame>>

PWrite(p) ==
  /\ procs[p].pc \in {"export_open", "save_open"}
  /\ file' = WriteBytes(file, procs[p].data)
  /\ SetProc(p, [procs[p] EXCEPT !.pc = IF @ = "export_open" THEN "save"
                                        ELSE "done",
                                 !.prev = IF procs[p].pc = "export_open"
                                          THEN file' ELSE @])
  /\ UNCHANGED <<nextTok, raceFrame>>

\* The process is killed; a write under way may have put some of its bytes.
PKill(p) ==
  /\ procs[p].pc \in {"loaded", "export", "export_open", "save", "save_open"}
  /\ SetProc(p, [procs[p] EXCEPT !.pc = "killed", !.at = procs[p].pc])
  /\ \/ file' = file
     \/ /\ procs[p].pc \in {"export_open", "save_open"}
        /\ file' = [exists |-> TRUE, bytes |-> Partial(procs[p].data)]
  /\ UNCHANGED <<nextTok, raceFrame>>

\* The next invocation of the CLI.
PRestart(p) ==
  /\ procs[p].pc \in {"done", "killed", "failed"}
  /\ SetProc(p, NotStarted)
  /\ UNCHANGED <<file, nextTok, raceFrame>>

\* Two invocations at once, each logging in its own account.
RaceNext ==
  \E p \in Procs :
    \/ PLoad(p)
    \/ PAuthenticate(p, {AccountOrder[p]})
    \/ POpen(p)
    \/ PWrite(p)

RaceSpec == Init /\ [][RaceNext]_vars

\* One invocation after the other, each of which may be killed.
CrashNext ==
  \/ PLoad(1)
  \/ PAuthenticate(1, Accounts)
  \/ POpen(1)
  \/ PWrite(1)
  \/ PKill(1)
  \/ PRestart(1)

CrashSpec == Init /\ [][CrashNext]_vars

(* ---------------- the adapters on every email and token --------------- *)
XOAuth2Init ==
  /\ AuthInit
  /\ xemail \in Strings
  /\ xtoken \in Strings
  /\ imapStart = NotCalled
  /\ smtpStart = NotCalled
  /\ xnext = NoNext
  /\ procs = [p \in Procs |-> NotStarted]
  /\ registry = <<>>
  /\ currentAccount = ""

IMAPStart ==
  /\ ~imapStart.called
  /\ imapStart' = xoauth2Client_Start(xemail, xtoken)
  /\ UNCHANGED <<authVars, procs, cliVars, lockVars,
                       xemail, xtoken, smtpStart, xnext>>

SMTPStart ==
  /\ ~smtpStart.called
  /\ smtpStart' = xoauth2SMTPAuth_Start(xemail, xtoken)
  /\ UNCHANGED <<authVars, procs, cliVars, lockVars,
                       xemail, xtoken, imapStart, xnext>>

\* The server answers the initial response with a challenge.
IMAPNext ==
  \E challenge \in Challenges :
    LET r == xoauth2Client_Next(xemail, xtoken, challenge)
    IN  /\ imapStart.called
        /\ xnext' = [who |-> "imap", challenge |-> challenge, more |-> FALSE,
                     resp |-> r.resp, err |-> r.err]
        /\ UNCHANGED <<authVars, procs, cliVars, lockVars,
                       xemail, xtoken, imapStart, smtpStart>>

SMTPNext ==
  \E fromServer \in Challenges, more \in BOOLEAN :
    LET r == xoauth2SMTPAuth_Next(xemail, xtoken, fromServer, more)
    IN  /\ smtpStart.called
        /\ xnext' = [who |-> "smtp", challenge |-> fromServer, more |-> more,
                     resp |-> r.resp, err |-> r.err]
        /\ UNCHANGED <<authVars, procs, cliVars, lockVars,
                       xemail, xtoken, imapStart, smtpStart>>

XOAuth2Next == IMAPStart \/ SMTPStart \/ IMAPNext \/ SMTPNext

XOAuth2Spec == XOAuth2Init /\ [][XOAuth2Next]_vars

(* --------------- goroutines on the TokenCache of one process ---------- *)
\* The library calls Replace and Export from whatever goroutine uses the
\* client, and the client's own code calls Save, Clear and HasToken.  Each
\* call takes TokenCache.mu on entry and releases it on return (defer);
\* between the two its reads and writes of t.data and of the file are
\* steps of their own.
WriterOps == {"Export", "Save", "Clear"}

ReaderOps == {"Replace", "HasToken"}

\* The blob goroutine t exports: the library's contract at that time.
Blob(t) == Marshal({[user |-> AccountOrder[t], at |-> t]})

\* sync.RWMutex: Lock needs the mutex free, RLock needs it free of a writer.
CanLock(m) == m.writer = 0 /\ m.readers = {}

CanRLock(m) == m.writer = 0

lockFrame == <<mgr, nextTok, expired, pc, tasks, ch, closed, sentLog, saveRet,
               result, mainWait, got, loggedOut, ret, xoVars, procs, cliVars>>

SetThread(t, q) == th' = [th EXCEPT ![t] = q]

\* t.mu.Lock() at the head of Export, Save and Clear
Lock(t) ==
  \E op \in WriterOps :
    /\ th[t].pc = "out"
    /\ CanLock(mu)
    /\ mu' = [mu EXCEPT !.writer = t]
    /\ SetThread(t, [op |-> op, pc |-> "in",
                     val |-> IF op = "Export" THEN Blob(t) ELSE <<>>])
    /\ lastLock' = [op |-> op, val |-> IF op = "Export" THEN Blob(t) ELSE <<>>]
    /\ UNCHANGED <<data, file, lockFrame>>

\* t.mu.RLock() at the head of Replace and HasToken
RLock(t) ==
  \E op \in ReaderOps :
    /\ th[t].pc = "out"
    /\ CanRLock(mu)
    /\ mu' = [mu EXCEPT !.readers = @ \cup {t}]
    /\ SetThread(t, [op |-> op, pc |-> "in", val |-> <<>>])
    /\ UNCHANGED <<data, file, lastLock, lockFrame>>

\* Export: t.data = data; Clear: t.data = nil
StoreData(t) ==
  /\ th[t].pc = "in"
  /\ th[t].op \in {"Export", "Clear"}
  /\ data' = th[t].val
  /\ SetThread(t, [th[t] EXCEPT !.pc = "stored"])
  /\ UNCHANGED <<file, mu, lastLock, lockFrame>>

\* Export and Save: t.saveToFile()
WriteFile(t) ==
  \E w \in WriteOutcomes :
    /\ \/ th[t].op = "Export" /\ th[t].pc = "stored"
       \/ th[t].op = "Save" /\ th[t].pc = "in"
    /\ file' = saveToFile(data, file, w).file
    /\ SetThread(t, [th[t] EXCEPT !.pc = "done"])
    /\ UNCHANGED <<data, mu, lastLock, lockFrame>>

\* Clear: os.Remove
RemoveFile(t) ==
  \E rmOk \in BOOLEAN :
    /\ th[t].op = "Clear"
    /\ th[t].pc = "stored"
    /\ file' = IF rmOk THEN NoFile ELSE file
    /\ SetThread(t, [th[t] EXCEPT !.pc = "done"])
    /\ UNCHANGED <<data, mu, lastLock, lockFrame>>

\* Replace: cache.Unmarshal(t.data); HasToken: len(t.data)
ReadData(t) ==
  /\ th[t].pc = "in"
  /\ th[t].op \in ReaderOps
  /\ SetThread(t, [th[t] EXCEPT !.pc = "done", !.val = data])
  /\ UNCHANGED <<data, file, mu, lastLock, lockFrame>>

\* defer t.mu.Unlock() / t.mu.RUnlock()
Unlock(t) ==
  /\ th[t].pc = "done"
  /\ mu' = IF th[t].op \in WriterOps THEN [mu EXCEPT !.writer = 0]
           ELSE [mu EXCEPT !.readers = @ \ {t}]
  /\ SetThread(t, Outside)
  /\ UNCHANGED <<data, file, lastLock, lockFrame>>

LockNext ==
  \E t \in Threads :
    \/ Lock(t)
    \/ RLock(t)
    \/ StoreData(t)
    \/ WriteFile(t)
    \/ RemoveFile(t)
    \/ ReadData(t)
    \/ Unlock(t)

LockSpec == Init /\ [][LockNext]_vars

(* -------------- the account registry and the auth commands ------------ *)
\* accounts.yaml holds the registered emails in the order they were added;
\* a missing file is the empty list.  LoadAccounts fails when the file can
\* not be read or parsed.
LoadAccounts(reg, readOk) ==
  IF readOk THEN [accounts |-> reg, err |-> nil]
  ELSE [accounts |-> <<>>, err |-> <<"failed to read accounts file">>]

AccountExists(reg, email) == \E i \in DOMAIN reg : reg[i] = email

\* AddAccount appending also an email that is registered already.
AddAccount_Append(reg, email) == Append(reg, email)

\* AddAccount: a registered email only gets a new AddedAt.
AddAccount(reg, email) ==
  IF \E i \in DOMAIN reg : reg[i] = email THEN reg ELSE Append(reg, email)

config_RemoveAccount(reg, email) == SelectSeq(reg, LAMBDA e : e # email)

RemoveAllAccounts == <<>>

SetCurrentAccount(email) == email

GetFirstAccount(reg, readOk) ==
  LET l == LoadAccounts(reg, readOk)
  IN  IF l.err # nil \/ Len(l.accounts) = 0 THEN "" ELSE l.accounts[1]

\* The loaded configuration: cfg is set before every command runs.
Config(cur) == <<[CurrentAccount |-> cur]>>

\* getActiveAccount asking the environment before the flag.
getActiveAccount_EnvFirst(accountFlag, envAccount, config, reg, readOk) ==
  IF envAccount # "" THEN envAccount
  ELSE IF accountFlag # "" THEN accountFlag
  ELSE IF config # <<>> /\ config[1].CurrentAccount # ""
    THEN config[1].CurrentAccount
  ELSE GetFirstAccount(reg, readOk)

getActiveAccount(accountFlag, envAccount, config, reg, readOk) ==
  IF accountFlag # "" THEN accountFlag
  ELSE IF envAccount # "" THEN envAccount
  ELSE IF config # <<>> /\ config[1].CurrentAccount # ""
    THEN config[1].CurrentAccount
  ELSE GetFirstAccount(reg, readOk)

\* What a command leaves behind: the cache, the registry, current_account
\* and its error.
Outcome(s, reg, cur, err, status) ==
  [s |-> s, registry |-> reg, current |-> cur, err |-> err, status |-> status]

\* runLogout changing the registry before the cache.
runLogout_RegistryFirst(s, reg, cur, email, st, lo) ==
  LET rest == config_RemoveAccount(reg, email)
      new == IF cur = email THEN SetCurrentAccount(GetFirstAccount(rest, TRUE))
             ELSE cur
  IN  IF email = "" THEN Outcome(s, reg, cur, nil, <<>>)
      ELSE IF st.ret.status = <<>> \/ ~st.ret.status[1].LoggedIn
        THEN Outcome(st.s, rest, new, nil, st.ret.status)
      ELSE IF lo.ret.err # nil
        THEN Outcome(lo.s, rest, new, <<"logout failed: %w", lo.ret.err>>,
                     st.ret.status)
      ELSE Outcome(lo.s, rest, new, nil, st.ret.status)

\* runLogout without --all, in a process that has just loaded the cache s;
\* st is what oauthClient.GetStatus(email) returns and lo what
\* oauthClient.Logout(email) returns after it.
runLogout(s, reg, cur, email, st, lo) ==
  LET rest == config_RemoveAccount(reg, email)
  IN  IF email = "" THEN Outcome(s, reg, cur, nil, <<>>)
      ELSE IF st.ret.status = <<>> \/ ~st.ret.status[1].LoggedIn
        THEN Outcome(st.s, reg, cur, nil, st.ret.status)
      ELSE IF lo.ret.err # nil
        THEN Outcome(lo.s, reg, cur, <<"logout failed: %w", lo.ret.err>>,
                     st.ret.status)
      ELSE Outcome(lo.s, rest,
                   IF cur = email
                     THEN SetCurrentAccount(GetFirstAccount(rest, TRUE))
                     ELSE cur,
                   nil, st.ret.status)

\* runLogout with --all; lo is what oauthClient.LogoutAll returns.
runLogoutAll(reg, cur, lo) ==
  IF lo.ret.err # nil
    THEN Outcome(lo.s, reg, cur, <<"logout failed: %w", lo.ret.err>>, <<>>)
    ELSE Outcome(lo.s, RemoveAllAccounts, SetCurrentAccount(""), nil, <<>>)

\* runSwitch
runSwitch(reg, cur, email) ==
  IF ~AccountExists(reg, email)
    THEN Outcome(store, reg, cur, <<"account %s not found", email>>, <<>>)
    ELSE Outcome(store, reg, SetCurrentAccount(email), nil, <<>>)

\* The tail of runLogin, from the value received on resultChan.
runLoginResult(reg, cur, v) ==
  IF v.err # nil
    THEN Outcome(store, reg, cur, <<"authentication failed: %w", v.err>>, <<>>)
    ELSE Outcome(store, AddAccount(reg, v.email), SetCurrentAccount(v.email),
                 nil, <<>>)

\* The cache of a process that has just been started on the directory.
NewProcess(readOk) ==
  [mgr |-> NoAccounts, data |-> NewTokenCache(file, readOk), file |-> file,
   next |-> nextTok]

\* Reading the token file can fail when there is one.
Reads == IF file.exists THEN BOOLEAN ELSE {TRUE}

SetCli(o) ==
  /\ registry' = o.registry
  /\ currentAccount' = o.current

\* One command runs at a time; a command is a process of its own.
RunLoginStart ==
  \E readOk \in Reads, net \in NetOutcomes :
  \E url \in IF net = "ok" THEN VerificationURLs ELSE {""} :
    LET r == StartDeviceCodeFlow(IdleFlow, net, url)
    IN  /\ CallerIdle
        /\ SetStore(NewProcess(readOk))
        /\ SetFlow(r.fl)
        /\ mainWait' = r.started
        /\ got' = <<>>
        /\ SetRet([r.ret EXCEPT !.ioerr = load(file, readOk).err # nil])
        /\ UNCHANGED <<expired, loggedOut>>
        /\ UNCHANGED <<xoVars, procs, cliVars, lockVars>>

RunLoginReceive ==
  LET r == Receive(flow)
      o == runLoginResult(registry, currentAccount, r.v)
  IN  /\ mainWait
      /\ Len(ch) > 0 \/ closed
      /\ ch' = r.fl.ch
      /\ got' = <<r.v>>
      /\ mainWait' = FALSE
      /\ SetCli(o)
      /\ SetRet(Ret("runLogin", r.v.email, r.v.token, o.err))
      /\ UNCHANGED <<file, data, mgr, nextTok, expired, pc, tasks, closed,
                     sentLog, saveRet, result, loggedOut>>
      /\ UNCHANGED <<xoVars, procs, lockVars>>

LoggedIn(st) == st.ret.status # <<>> /\ st.ret.status[1].LoggedIn

\* The email is matched exactly, so the order in which the library
\* enumerates its accounts makes no difference to the command.
RunLogout ==
  /\ CallerIdle
  /\ \E readOk \in Reads, args \in {<<>>} \cup {<<a>> : a \in Accounts} :
     \E accountFlag \in IF args = <<>> THEN {"", AccountOrder[2]} ELSE {""} :
     \E s \in {NewProcess(readOk)} :
     \E email \in {IF Len(args) > 0 THEN args[1]
                   ELSE getActiveAccount(accountFlag, "",
                                         Config(currentAccount), registry,
                                         TRUE)} :
     \E rev \in {FALSE}, net \in Refreshes(s, email) :
     \E w \in Writes(s, email, net) :
     \E st \in {GetStatus(s, email, rev, net, w)} :
     \E w1 \in IF LoggedIn(st) THEN WriteOutcomes ELSE {"ok"} :
     \E w2 \in IF LoggedIn(st) /\ w1 = "ok" THEN WriteOutcomes ELSE {"ok"} :
     \E lo \in {Logout(st.s, email, rev, w1, w2)} :
     \E o \in {runLogout(s, registry, currentAccount, email, st, lo)} :
       /\ InBudget(o.s)
       /\ SetStore(o.s)
       /\ SetFlow(IdleFlow)
       /\ mainWait' = FALSE
       /\ got' = <<>>
       /\ SetCli(o)
       /\ SetRet([Ret("runLogout", email, 0, o.err)
                    EXCEPT !.status = o.status,
                           !.ioerr = \/ load(file, readOk).err # nil
                                     \/ w # "ok"
                                     \/ w1 # "ok"
                                     \/ w2 # "ok"])
       /\ loggedOut' = IF o.err = nil /\ LoggedIn(st) /\ email # ""
                         THEN loggedOut \cup {email} ELSE loggedOut
       /\ UNCHANGED expired
       /\ UNCHANGED <<xoVars, procs, lockVars>>

RunLogoutAll ==
  /\ CallerIdle
  /\ \E readOk \in Reads :
     \E s \in {NewProcess(readOk)} :
     \E rev \in Orders(s), ws \in RemovalRuns(s) :
     \E rmOk \in IF file.exists \/ Users(Replace(s).s.mgr) # {}
                   THEN BOOLEAN ELSE {TRUE} :
     \E lo \in {LogoutAll(s, rev, ws, rmOk)} :
     \E o \in {runLogoutAll(registry, currentAccount, lo)} :
       /\ SetStore(o.s)
       /\ SetFlow(IdleFlow)
       /\ mainWait' = FALSE
       /\ got' = <<>>
       /\ SetCli(o)
       /\ SetRet([Ret("runLogoutAll", "", 0, o.err)
                    EXCEPT !.ioerr = \/ load(file, readOk).err # nil
                                     \/ \E i \in DOMAIN ws : ws[i] # "ok"
                                     \/ ~rmOk])
       /\ UNCHANGED <<expired, loggedOut>>
       /\ UNCHANGED <<xoVars, procs, lockVars>>

RunSwitch ==
  \E email \in Accounts :
    LET o == runSwitch(registry, currentAccount, email)
    IN  /\ CallerIdle
        /\ SetFlow(IdleFlow)
        /\ mainWait' = FALSE
        /\ got' = <<>>
        /\ SetCli(o)
        /\ SetRet(Ret("runSwitch", email, 0, o.err))
        /\ UNCHANGED <<file, data, mgr, nextTok, expired, loggedOut>>
        /\ UNCHANGED <<xoVars, procs, lockVars>>

\* A command resolving the account it works on.
DoGetActiveAccount ==
  \E accountFlag \in Emails, envAccount \in Emails, readOk \in BOOLEAN :
    /\ CallerIdle
    /\ SetRet([Ret("getActiveAccount",
                   getActiveAccount(accountFlag, envAccount,
                                    Config(currentAccount), registry, readOk),
                   0, nil)
                 EXCEPT !.list = <<accountFlag, envAccount>>,
                        !.ioerr = ~readOk])
    /\ UNCHANGED <<file, data, mgr, nextTok, expired, pc, tasks, ch, closed,
                   sentLog, saveRet, result, mainWait, got, loggedOut>>
    /\ UNCHANGED <<xoVars, procs, cliVars, lockVars>>

\* The registries without a repeated email.
Registries ==
  {r \in UNION {[1..n -> Accounts] : n \in 0..Cardinality(Accounts)} :
     \A i, j \in DOMAIN r : i # j => r[i] # r[j]}

\* getActiveAccount on every registry and every current_account the two
\* files can hold.
ResolveInit ==
  /\ AuthInit
  /\ xemail = <<>>
  /\ xtoken = <<>>
  /\ imapStart = NotCalled
  /\ smtpStart = NotCalled
  /\ xnext = NoNext
  /\ procs = [p \in Procs |-> NotStarted]
  /\ registry \in Registries
  /\ currentAccount \in Emails

ResolveSpec == ResolveInit /\ [][DoGetActiveAccount]_vars

CliNext ==
  \/ RunLoginStart
  \/ DoAwaitAuthenticationResult
  \/ DoSaveAndSend
  \/ RunLoginReceive
  \/ RunLogout
  \/ RunLogoutAll
  \/ RunSwitch
  \/ Expire

CliSpec == Init /\ [][CliNext]_vars

(* ------------------------------- claims ------------------------------- *)
NotLoggedInErrors == {ErrNoValidToken} \cup {ErrNoTokenFor(e) : e \in Emails}

IsNotLoggedIn(err) == err \in NotLoggedInErrors

\* The accounts the library enumerates in the current state.
CacheNow == Replace(store).s.mgr

\* C1: a success AuthResult is sent only after TokenCache.Save has returned
\* nil in the goroutine: every success ever sent or received goes with
\* saveRet = "ok", and when the success is sent the token file holds the
\* bytes of t.data, with the authenticated account in them.
C1_SaveBeforeSuccess ==
  /\ \A i \in 1..Len(sentLog) : sentLog[i].err = nil => saveRet = "ok"
  /\ \A i \in 1..Len(got) :
       got[i].err = nil /\ got[i].token # 0 => saveRet = "ok"
  /\ ret.op = "deliver" /\ ret.err = nil =>
       /\ file.exists
       /\ file.bytes = data
       /\ ret.email \in Users(Contents(file.bytes))

C1_Witness ==
  /\ ret.op = "receive"
  /\ ret.err = nil
  /\ ret.token \in Tokens
  /\ saveRet = "ok"

\* C2: a process started right after a success for account A was delivered,
\* and that loaded the token file, resolves A in GetAccessToken(A): it never
\* answers not-logged-in, starts no device code flow, and returns the cached
\* token unless that token's validity window has already elapsed (then the
\* one silent refresh decides between a token and a refresh failure).
C2_FreshProcessResolves ==
  ret.op = "GetAccessToken" /\ ret.after # "" /\ ret.after = ret.email =>
    /\ ~IsNotLoggedIn(ret.err)
    /\ ret.flows = 0
    /\ pc = "idle"
    /\ ~ret.refreshed =>
         /\ ret.err = nil
         /\ ret.token \in Tokens
         /\ ret.token = TokenOf(CacheNow, ret.email)

C2_Witness ==
  /\ ret.op = "GetAccessToken"
  /\ ret.after # ""
  /\ ret.after = ret.email
  /\ ret.err = nil
  /\ ~ret.refreshed

\* C3: on the channel of one StartDeviceCodeFlow call at most one value is
\* ever sent, and exactly one when the goroutine has ended; it is a success
\* with token and account or a failure with Error set; the channel is closed
\* exactly when the goroutine has ended; and an ended flow stays as it is
\* until a new flow or a new process replaces it.
FlowWellFormed ==
  /\ Len(sentLog) <= 1
  /\ Len(ch) <= 1
  /\ pc = "done" => Len(sentLog) = 1
  /\ closed <=> pc = "done"
  /\ pc \in {"polling", "authed"} => Len(sentLog) = 0
  /\ \A i \in 1..Len(sentLog) :
       \/ /\ sentLog[i].err = nil
          /\ sentLog[i].token \in Tokens
          /\ sentLog[i].email \in Accounts
       \/ /\ sentLog[i].err # nil
          /\ sentLog[i].token = 0
          /\ sentLog[i].email = ""

TerminalStays ==
  pc = "done" =>
    \/ pc' = "done" /\ sentLog' = sentLog /\ closed'
    \/ pc' \in {"idle", "polling"} /\ sentLog' = <<>> /\ ~closed'

C3_ExactlyOneResult == [](FlowWellFormed) /\ [][TerminalStays]_vars

C3_Witness ==
  /\ pc = "done"
  /\ closed
  /\ Len(sentLog) = 1
  /\ sentLog[1].err # nil
  /\ ret.op = "receive"

\* C4: GetAccessToken(email) returns one of the not-logged-in errors and no
\* token whenever no cached account has email as PreferredUsername, and so
\* for every email when there is no token file and the cache is empty.
C4_NotLoggedIn ==
  ret.op = "GetAccessToken" /\ ret.email \notin Users(CacheNow) =>
    /\ IsNotLoggedIn(ret.err)
    /\ ret.token = 0
    /\ ret.silent = 0

C4_Witness ==
  /\ ret.op = "GetAccessToken"
  /\ ret.email \notin Users(CacheNow)
  /\ CacheNow # NoAccounts
  /\ IsNotLoggedIn(ret.err)

\* C5: one GetAccessToken call makes at most one AcquireTokenSilent call and
\* starts no device code flow; when that call fails it returns an error and
\* no token, and the goroutine position is what it was.
C5_AtMostOneSilent ==
  ret.op = "GetAccessToken" =>
    /\ ret.silent <= 1
    /\ ret.flows = 0
    /\ pc \in {"idle", "done"}
    /\ ret.err # nil => ret.token = 0

C5_Witness ==
  /\ ret.op = "GetAccessToken"
  /\ ret.silent = 1
  /\ ret.refreshed
  /\ ret.err # nil

\* C6: when the named account is in the cache and GetAccessToken fails, it
\* returns no token and the refresh-failed error, which is none of the
\* not-logged-in errors and carries the email and the library's cause.
SilentCauses ==
  {"invalid_grant", "network_error", "failed to write token file: %w",
   "failed to create cache directory: %w"}

C6_RefreshFailed ==
  ret.op = "GetAccessToken" /\ ret.email \in Users(CacheNow) /\ ret.err # nil =>
    /\ ret.token = 0
    /\ ~IsNotLoggedIn(ret.err)
    /\ Len(ret.err) = 3
    /\ ret.err[1] = "token refresh failed for %s: %v"
    /\ ret.err[2] = ret.email
    /\ ret.err[3] \in SilentCauses

C6_Witness ==
  /\ ret.op = "GetAccessToken"
  /\ ret.email \in Users(CacheNow)
  /\ ret.err # nil
  /\ ret.err[3] = "invalid_grant"

\* C7: once Logout(email) has returned nil, GetAccessToken(email) returns a
\* not-logged-in error and no token, in that process and in every later
\* one, until the identity provider authenticates that account again in a
\* device code flow.
C7_LogoutRemoves ==
  ret.op = "GetAccessToken" /\ ret.email \in loggedOut =>
    /\ IsNotLoggedIn(ret.err)
    /\ ret.token = 0

C7_Witness ==
  /\ ret.op = "GetAccessToken"
  /\ ret.email \in loggedOut
  /\ CacheNow # NoAccounts

\* C8: when LogoutAll has returned nil the token file does not exist,
\* t.data is empty (HasToken is false) and ListAccounts returns no account.
C8_LogoutAllClears ==
  ret.op = "LogoutAll" /\ ret.err = nil =>
    /\ ~file.exists
    /\ ~HasToken(data)
    /\ \A rev \in BOOLEAN :
         /\ ListAccounts(store, rev).ret.err = nil
         /\ ListAccounts(store, rev).ret.list = <<>>

C8_Witness ==
  /\ ret.op = "LogoutAll"
  /\ ret.err = nil
  /\ Len(ret.list) = 2

\* C9: of two consecutive GetAccessToken calls for one email neither starts
\* a device code flow; when the first returned a token the second returns
\* the same token without a refresh; and a first call for a cached account
\* fails only when the refresh was refused (invalid_grant), the network
\* failed or the token file could not be written.
SecondCallAgrees ==
  ret'.op = "GetAccessToken" /\ ret'.again # "no" =>
    /\ ret.flows = 0
    /\ ret'.flows = 0
    /\ ret.err = nil =>
         /\ ret'.err = nil
         /\ ret'.token = ret.token
         /\ ~ret'.refreshed

FirstCallFailsOnlyOnFault ==
  ret.op = "GetAccessToken" /\ ret.email \in Users(CacheNow) /\ ret.err # nil =>
    /\ ret.refreshed
    /\ ret.err[3] \in SilentCauses

C9_ConsecutiveCalls ==
  [](FirstCallFailsOnlyOnFault) /\ [][SecondCallAgrees]_vars

C9_Witness ==
  /\ ret.op = "GetAccessToken"
  /\ ret.again = "refreshed"
  /\ ret.err = nil
  /\ ~ret.refreshed
  /\ ret.token \in Tokens

\* C10: for every email e and token t both adapters return the mechanism
\* "XOAUTH2", no error, and the same initial response: the bytes of "user=",
\* e, 0x01, "auth=Bearer ", t, 0x01, 0x01 and nothing else.
UserEq == <<117, 115, 101, 114, 61>>

AuthBearer == <<97, 117, 116, 104, 61, 66, 101, 97, 114, 101, 114, 32>>

Payload(e, t) == UserEq \o e \o <<1>> \o AuthBearer \o t \o <<1, 1>>

StartIsExact(r) ==
  r.called =>
    /\ r.mech = "XOAUTH2"
    /\ r.err = nil
    /\ r.ir = Payload(xemail, xtoken)
    /\ Len(r.ir) = 20 + Len(xemail) + Len(xtoken)

C10_XOAuth2Payload ==
  /\ StartIsExact(imapStart)
  /\ StartIsExact(smtpStart)
  /\ imapStart.called /\ smtpStart.called => imapStart.ir = smtpStart.ir

C10_Witness ==
  /\ imapStart.called
  /\ smtpStart.called
  /\ xemail = <<37, 115>>
  /\ Len(xtoken) = MaxStrLen

\* C11: whatever challenge the server sends, and for SMTP whether it
\* announces more to come or not, Next of either adapter returns an empty
\* response and no error: the credentials go out in Start and never again.
C11_NextIsEmpty ==
  xnext.who # "none" => Len(xnext.resp) = 0 /\ xnext.err = nil

C11_Witness ==
  /\ xnext.who = "smtp"
  /\ xnext.more
  /\ Len(xnext.challenge) = 1
  /\ Len(xemail) = MaxStrLen
  /\ imapStart.called

\* C12: every pending authentication ends with one value sent on its
\* channel, and the caller blocked in the receive gets a value and goes on;
\* when the device code expired, what was sent and received is a failure.
ExpiryIsFailure ==
  \A i \in 1..Len(sentLog) :
    sentLog[i].err = <<"expired_token">> => sentLog[i].token = 0

C12_PendingDelivers ==
  /\ (pc = "polling") ~> (Len(sentLog) = 1 /\ closed)
  /\ mainWait ~> (~mainWait /\ Len(got) = 1)
  /\ []ExpiryIsFailure

C12_Witness ==
  /\ ret.op = "receive"
  /\ ~mainWait
  /\ got = <<AuthResult(0, "", <<"expired_token">>)>>
  /\ pc = "done"

\* The operation failed.  In GetStatus the operation that encloses the
\* write is the library's silent acquisition, whose failure GetStatus
\* turns into TokenExpired.
Failed(r) ==
  IF r.op = "GetStatus" /\ r.err = nil THEN r.status[1].TokenExpired
  ELSE r.err # nil

\* C13: an operation during which a read, a write or a remove of the token
\* file failed returns an error (for the goroutine: sends a failure).
C13_IOFailuresReported == ret.ioerr => Failed(ret)

\* The same for the writes and the remove alone: every operation but the
\* construction.
WriteFailuresReported ==
  ret.ioerr /\ ret.op # "NewOAuthClient" => Failed(ret)

\* A new process resolves account a from the token file as it is.
ResolvesFromFile(a) ==
  LET s == [mgr |-> NoAccounts, data |-> NewTokenCache(file, TRUE),
            file |-> file, next |-> nextTok]
  IN  /\ Replace(s).err = nil
      /\ GetAccessToken(s, a, FALSE, "ok", "ok").ret.err = nil

\* C14: when two processes on one cache directory have each loaded the
\* cache, logged in a different account and written the token file, in any
\* interleaving, the file is a complete blob from which both accounts
\* resolve.
C14_BothAccountsSurvive ==
  (\A p \in Procs : procs[p].pc = "done") =>
    /\ file.exists
    /\ Len(file.bytes) > 0
    /\ ~UnmarshalFails(file.bytes)
    /\ \A p \in Procs : ResolvesFromFile(AccountOrder[p])

\* C15: after a process was killed during Export or Save the token file
\* holds the complete blob from before the call or the complete new one.
C15_CrashSafe ==
  \A p \in Procs :
    procs[p].pc = "killed" /\ procs[p].at # "loaded" =>
      \/ file = procs[p].prev
      \/ file = [exists |-> TRUE, bytes |-> procs[p].data]

\* C16 as claimed: a call of GetStatus leaves the in-memory blob and the
\* token file as they were, whatever the state of the cache.
C16_GetStatusNonMutating ==
  [][ret'.op = "GetStatus" => data' = data /\ file' = file]_vars

\* C16 as the code has it: GetStatus leaves the in-memory blob and the
\* token file as they were unless the identity provider grants the silent
\* refresh it asks for; that happens only for an account whose cached
\* access token is expired, and the library's Export then replaces the blob.
StatusStepKeepsCache ==
  ret'.op = "GetStatus" =>
    IF nextTok' # nextTok
      THEN /\ ret'.refreshed
           /\ TokenOf(CacheNow, ret'.status[1].Email) \in expired
           /\ data' # data
      ELSE data' = data /\ file' = file

C16_GetStatusMutatesOnlyOnRefresh == [][StatusStepKeepsCache]_vars

C16_Witness ==
  /\ ret.op = "GetStatus"
  /\ ret.refreshed
  /\ ret.status[1].TokenExpired
  /\ Len(data) > 0
  /\ file.bytes = data

\* C17: GetStatus(email) returns no error and exactly one of three
\* statuses.  Not logged in when no cached account matches email (none at
\* all for an empty cache, any for the empty email); logged in and expired
\* when the silent acquisition for the matching account fails (its token is
\* expired and the refresh is refused or its result cannot be written);
\* logged in and valid, with the expiry of the account's token, otherwise.
StatusIsExact ==
  LET c == CacheNow
      e == ret'.email
      st == ret'.status[1]
      matching == IF e = "" THEN Users(c) ELSE Users(c) \cap {e}
      granted == nextTok' # nextTok /\ ~ret'.ioerr
  IN  /\ ret'.err = nil
      /\ Len(ret'.status) = 1
      /\ IF matching = {} THEN st = NotLoggedIn
         ELSE /\ st.LoggedIn
              /\ st.Email \in matching
              /\ IF TokenOf(c, st.Email) \notin expired \/ granted
                   THEN /\ ~st.TokenExpired
                        /\ st.ExpiresAt \in Tokens
                        /\ st.ExpiresAt = TokenOf(CacheNow', st.Email)
                   ELSE st.TokenExpired /\ st.ExpiresAt = 0

C17_StatusClassification == [][ret'.op = "GetStatus" => StatusIsExact]_vars

C17_Witness ==
  /\ ret.op = "GetStatus"
  /\ ret.email = "bob"
  /\ ret.err = nil
  /\ ret.status[1] = AuthStatus(TRUE, "bob", TRUE, 0)
  /\ Users(mgr) = Accounts

\* C18: with the empty email and at least one account cached, GetStatus
\* and GetAccessToken come to the first account the library enumerates:
\* GetStatus reports it logged in, GetAccessToken does not answer with a
\* not-logged-in error.
EmptyFilterStatusResolvesFirst ==
  ret.op = "GetStatus" /\ ret.email = "" /\ Users(mgr) # {} =>
    ret.status[1].LoggedIn /\ ret.status[1].Email = ret.list[1]

C18_EmptyFilterResolvesFirst ==
  /\ EmptyFilterStatusResolvesFirst
  /\ ret.op = "GetAccessToken" /\ ret.email = "" /\ Users(mgr) # {} =>
       ~IsNotLoggedIn(ret.err)

\* C19: Logout(email) for an email that no cached account has returns the
\* error "account email not found" and leaves the cached accounts, the
\* in-memory blob and the token file as they were; called again in the
\* state it leaves, it returns the same error and leaves the same state.
LogoutNotFound(r) ==
  r.op = "Logout" /\ r.err = <<"account %s not found", r.email>>

NotFoundStepKeepsAll ==
  ret'.op = "Logout" /\ ret'.email \notin Users(CacheNow) =>
    /\ LogoutNotFound(ret')
    /\ data' = data
    /\ file' = file
    /\ CacheNow' = CacheNow

NotFoundAgain ==
  LogoutNotFound(ret) =>
    \A rev \in BOOLEAN, w1 \in WriteOutcomes, w2 \in WriteOutcomes :
      LET r == Logout(store, ret.email, rev, w1, w2)
      IN  r.ret = ret /\ r.s = store

C19_LogoutUnknownAccount == [][NotFoundStepKeepsAll]_vars /\ []NotFoundAgain

C19_Witness ==
  /\ LogoutNotFound(ret)
  /\ ret.email = "bob"
  /\ Users(mgr) = {"alice"}
  /\ file.bytes # data

\* C20: when StartDeviceCodeFlow returns without error, the caller has the
\* display info (user code, verification URL, expiry, message) and the
\* channel, and the authentication is pending: the goroutine is waiting
\* for the identity provider, nothing has been sent and the channel is
\* open.
DisplayInfo(d) ==
  /\ d.UserCode = "user_code"
  /\ d.VerificationURL # ""
  /\ d.ExpiresIn = <<"seconds until", "expires_on">>
  /\ d.Message = "message"

C20_StartReturnsWhilePending ==
  ret.op = "StartDeviceCodeFlow" /\ ret.err = nil =>
    /\ Len(ret.display) = 1
    /\ DisplayInfo(ret.display[1])
    /\ mainWait
    /\ pc = "polling"
    /\ sentLog = <<>>
    /\ ch = <<>>
    /\ ~closed
    /\ got = <<>>

C20_Witness ==
  /\ ret.op = "StartDeviceCodeFlow"
  /\ ret.err = nil
  /\ ret.display[1].VerificationURL = "https://microsoft.com/devicelogin"
  /\ pc = "polling"
  /\ Users(mgr) # {}

\* C21: when the device authorization request fails, StartDeviceCodeFlow
\* returns "failed to start device code flow" wrapping the cause and no
\* display info, the caller gets no channel to wait on, no goroutine is
\* started, the cache in memory and the token file are as before, and the
\* flow is where it was, so that StartDeviceCodeFlow can be called again.
StartFailed(r) == r.op = "StartDeviceCodeFlow" /\ r.err # nil

FailedStartStep ==
  StartFailed(ret') =>
    /\ ret'.err[1] = "failed to start device code flow: %w"
    /\ ret'.err[2] \in NetOutcomes \ {"ok"}
    /\ ret'.display = <<>>
    /\ ret'.flows = 0
    /\ ~mainWait'
    /\ flow' = flow
    /\ UNCHANGED <<file, data, mgr, nextTok>>

CanStartAgain == StartFailed(ret) => ~mainWait /\ pc \in {"idle", "done"}

C21_StartFailure == [][FailedStartStep]_vars /\ []CanStartAgain

C21_Witness ==
  /\ StartFailed(ret)
  /\ ret.err[2] = "network_error"
  /\ pc = "idle"
  /\ Users(mgr) # {}

\* C22: when the library's account enumeration fails, GetAccessToken,
\* ListAccounts, GetStatus, Logout and LogoutAll each return an error that
\* carries the cause, and none a not-logged-in error or a success.
Enumerating == {"GetAccessToken", "ListAccounts", "GetStatus", "Logout",
                "LogoutAll"}

EnumerationFails == Replace(store).err # nil

Carries(err, cause) == \E i \in 1..Len(err) : err[i] = cause

Propagates(r) ==
  /\ r.err # nil
  /\ ~IsNotLoggedIn(r.err)
  /\ Carries(r.err, "unmarshal failed")

C22_EnumerationFailurePropagated ==
  [][EnumerationFails /\ ret'.op \in Enumerating => Propagates(ret')]_vars

\* The same for the four operations other than GetAccessToken.
OthersPropagate ==
  [][EnumerationFails /\ ret'.op \in Enumerating \ {"GetAccessToken"}
       => Propagates(ret')]_vars

\* C23: when the context is cancelled during the silent refresh, the error
\* of GetAccessToken can be told to be a cancellation (errors.Is finds the
\* context's error) and is of another kind than the refresh failure that
\* an expired or revoked refresh token gives.
C23_CancellationDistinct ==
  ret.op = "GetAccessToken" /\ Carries(ret.err, "context_canceled") =>
    /\ ErrorsIs(ret.err, "context_canceled")
    /\ Kind(ret.err) # Kind(ErrRefreshFailed(ret.email, <<"invalid_grant">>))

\* The registry as getActiveAccount gets it from LoadAccounts: the accounts
\* of the file, and none when the file could not be read.
Loaded == IF ret.ioerr THEN <<>> ELSE registry

\* C24: getActiveAccount returns the --account flag when it is not empty,
\* else O365_ACCOUNT when it is not empty, else current_account when it is
\* not empty, else the first account of the registry it loaded, and the
\* empty string when that has none; so a source never overrides a non-empty
\* source before it.
C24_ResolutionOrder ==
  ret.op = "getActiveAccount" =>
    LET accountFlag == ret.list[1]
        envAccount == ret.list[2]
    IN  ret.email =
          IF accountFlag # "" THEN accountFlag
          ELSE IF envAccount # "" THEN envAccount
          ELSE IF currentAccount # "" THEN currentAccount
          ELSE IF Len(Loaded) > 0 THEN Loaded[1]
          ELSE ""

\* The flag wins over a different O365_ACCOUNT and current_account.
C24_Witness ==
  /\ ret.op = "getActiveAccount"
  /\ ret.list = <<"alice", "bob">>
  /\ currentAccount = "bob"
  /\ registry = <<"bob", "alice">>
  /\ ret.email = "alice"

\* The three sources before it empty, the first registered account is taken.
C24_WitnessRegistry ==
  /\ ret.op = "getActiveAccount"
  /\ ret.list = <<"", "">>
  /\ currentAccount = ""
  /\ registry = <<"bob", "alice">>
  /\ ret.email = "bob"

\* The bytes of the token file, an absent file counting as the empty blob.
OnDisk == IF file.exists THEN file.bytes ELSE <<>>

\* C25: between the TokenCache operations the token file holds the bytes of
\* t.data, also after an Export, Save or Clear that failed.
C25_FileEqualsMemory == data = OnDisk

\* Goroutines inside a TokenCache call, holding the mutex.
Inside(ops) == {t \in Threads : th[t].pc # "out" /\ th[t].op \in ops}

AllOutside == \A t \in Threads : th[t].pc = "out"

\* Export, Save and Clear run alone; Replace and HasToken overlap only with
\* each other, so no Replace reads t.data while a writer is replacing it.
MutualExclusion ==
  \A t \in Inside(WriterOps) : Inside(WriterOps \cup ReaderOps) = {t}

\* When the write of the Export that locked last went through, t.data and
\* the file hold its blob once all calls have returned.
LastExportWinsIfWritten ==
  AllOutside /\ lastLock.op = "Export" /\ OnDisk = data =>
    data = lastLock.val

\* C26: Export, Save and Clear exclude each other and Replace and HasToken,
\* and once concurrent Export calls have all returned, t.data and the token
\* file both hold the blob of the Export that took the lock last.
C26_LockOrdersExports ==
  /\ MutualExclusion
  /\ AllOutside /\ lastLock.op = "Export" =>
       data = lastLock.val /\ OnDisk = lastLock.val

C28_TaskNeverBlocks ==
  /\ [](pc = "done" => closed /\ Len(sentLog) = 1)
  /\ (pc = "polling") ~> (pc = "done")

\* The goroutine has delivered to a caller that gave up before: the value
\* stays in the buffer, the channel is closed and the goroutine is gone.
C28_Witness ==
  /\ pc = "done"
  /\ closed
  /\ tasks = 0
  /\ ~mainWait
  /\ got = <<>>
  /\ Len(ch) = 1

\* The accounts of the token file.
InTokenFile(f) == Users(Contents(IF f.exists THEN f.bytes ELSE <<>>))

RegistryKept == UNCHANGED <<registry, currentAccount>>

\* A step of "auth logout <email>": the registry or current_account change
\* only when Logout(email) has taken the account out of the token cache and
\* returned nil; for an email GetStatus does not report as logged in, as it
\* does for every email absent from the token cache, the command succeeds
\* and leaves registry, current_account and token file alone; and a failed
\* Logout leaves registry and current_account alone.
LogoutStep ==
  ret'.op = "runLogout" /\ ret'.email # "" =>
    /\ ~RegistryKept =>
         /\ ret'.err = nil
         /\ ret'.email \in InTokenFile(file)
         /\ ret'.email \notin InTokenFile(file')
    /\ ret'.email \notin InTokenFile(file) => ~LoggedIn([ret |-> ret'])
    /\ ~LoggedIn([ret |-> ret']) =>
         ret'.err = nil /\ RegistryKept /\ file' = file
    /\ ret'.err # nil => RegistryKept

\* C29: "auth logout <email>" changes the account registry and
\* current_account only after the token cache Logout(email) has succeeded.
C29_RegistryAfterLogout == [][LogoutStep]_vars

\* The current account, registered but absent from the token cache, has
\* been logged out: the command succeeded and nothing changed.
C29_Witness ==
  /\ ret.op = "runLogout"
  /\ ret.err = nil
  /\ ~ret.ioerr
  /\ ret.status = <<NotLoggedIn>>
  /\ ret.email \notin InTokenFile(file)
  /\ AccountExists(registry, ret.email)
  /\ currentAccount = ret.email

\* Logout failed for a registered account.
C29_WitnessFailed ==
  /\ ret.op = "runLogout"
  /\ ret.err # nil
  /\ AccountExists(registry, ret.email)
  /\ currentAccount = ret.email

\* No email twice in the registry, and current_account empty or registered.
RegistryConsistent ==
  /\ \A i, j \in DOMAIN registry : i # j => registry[i] # registry[j]
  /\ currentAccount = "" \/ AccountExists(registry, currentAccount)

\* What the commands do to the registry: a failed login changes nothing and
\* a successful one registers the account and makes it current; the logout
\* of the current account moves current to the first remaining account or
\* to empty; logout --all empties both; a switch to an unregistered email
\* fails and changes nothing.
CommandStep ==
  /\ ret'.op = "runLogin" /\ ret'.err # nil => RegistryKept
  /\ ret'.op = "runLogin" /\ ret'.err = nil =>
       /\ AccountExists(registry', ret'.email)
       /\ currentAccount' = ret'.email
  /\ ret'.op = "runLogout" /\ registry' # registry
       /\ currentAccount = ret'.email =>
       currentAccount' = IF Len(registry') > 0 THEN registry'[1] ELSE ""
  /\ ret'.op = "runLogoutAll" /\ ret'.err = nil =>
       registry' = <<>> /\ currentAccount' = ""
  /\ ret'.op = "runSwitch" /\ ~AccountExists(registry, ret'.email) =>
       ret'.err # nil /\ RegistryKept

\* C30: from an empty registry, after any sequence of login, logout <email>,
\* logout --all and switch <email>, the registry holds no email twice and
\* current_account is empty or the email of a registered account.
C30_RegistryInvariant == []RegistryConsistent /\ [][CommandStep]_vars

\* Both accounts were registered and bob, the current one, has been logged
\* out: alice is left and is current.
C30_Witness ==
  /\ ret.op = "runLogout"
  /\ ret.err = nil
  /\ ret.email = "bob"
  /\ LoggedIn([ret |-> ret])
  /\ registry = <<"alice">>
  /\ currentAccount = "alice"

====
